---- MODULE Spec2Model ----
(***************************************************************************)
(* Model of scripts/extract_pre_event_data.py: the pre-event extraction    *)
(* pipeline (AOI selection, region resolution, dataset loading, spatial    *)
(* filtering, structure/parcel join with MFD deduplication, footprint      *)
(* regularization, schema transformation, output).                         *)
(*                                                                         *)
(* Coordinates are integers in micro-degrees (degrees * 10^6).  A polygon  *)
(* is an axis-aligned rectangle <<minx, miny, maxx, maxy>>; an AOI is a    *)
(* multipolygon, i.e. a set of such rectangles; a missing (NaN) geometry   *)
(* is the empty tuple.  A data frame is a sequence of row records.         *)
(***************************************************************************)
EXTENDS Integers, Sequences, FiniteSets, TLC

\* ------------------------------------------------------------------ bounds
\* Largest number of structure rows loaded in one run, over all regions.
MaxStructs == 2
\* Largest number of parcel rows loaded in one run, over all regions.
MaxParcels == 2

\* Largest number of edges of a polygon handed to count_orthogonal_edges.
MaxEdges == 3
\* Largest number of features the API returns in one run, over both layers.
MaxFeatures == 3

\* ------------------------------------------------------- generic helpers
Range(s) == {s[i] : i \in 1..Len(s)}

BoundedSeq(S, n) == UNION {[1..k -> S] : k \in 0..n}

RECURSIVE SelectSeqIdx(_, _, _)
\* the rows of s, in order, whose index is in keep (boolean-mask indexing)
SelectSeqIdx(s, keep, i) ==
    IF i > Len(s) THEN <<>>
    ELSE (IF i \in keep THEN <<s[i]>> ELSE <<>>) \o SelectSeqIdx(s, keep, i + 1)

RECURSIVE Concat(_)
\* pd.concat(frames, ignore_index=True)
Concat(frames) ==
    IF frames = <<>> THEN <<>> ELSE Head(frames) \o Concat(Tail(frames))

Min2(a, b) == IF a <= b THEN a ELSE b
Max2(a, b) == IF a >= b THEN a ELSE b
SetMin(S) == CHOOSE x \in S : \A y \in S : x <= y
SetMax(S) == CHOOSE x \in S : \A y \in S : x >= y

\* ------------------------------------------------------------- geometry
NaN == <<>>

\* shapely.geometry.box(minx, miny, maxx, maxy)
box(minx, miny, maxx, maxy) == <<minx, miny, maxx, maxy>>

\* polygon.intersects(polygon): boundary-inclusive
RectIntersects(a, b) ==
    /\ a[1] <= b[3] /\ b[1] <= a[3]
    /\ a[2] <= b[4] /\ b[2] <= a[4]

\* multipolygon.intersects(polygon)
AoiIntersects(aoi, r) == \E p \in aoi : RectIntersects(p, r)

\* polygon.intersection(polygon).area
IntersectionArea(a, b) ==
    LET w == Min2(a[3], b[3]) - Max2(a[1], b[1])
        h == Min2(a[4], b[4]) - Max2(a[2], b[2])
    IN  IF w > 0 /\ h > 0 THEN w * h ELSE 0

\* geometry.bounds of a multipolygon
Bounds(aoi) ==
    << SetMin({p[1] : p \in aoi}), SetMin({p[2] : p \in aoi}),
       SetMax({p[3] : p \in aoi}), SetMax({p[4] : p \in aoi}) >>

\* geometry.wkt of a polygon: the closed exterior ring, counter-clockwise
\* from the lower-right corner as shapely's box() lays it out
Wkt(g) ==
    << "POLYGON", g[3], g[2], g[3], g[4], g[1], g[4], g[1], g[2], g[3], g[2] >>

\* --------------------------------------------------------- region table
\* STATE_BOUNDS, in declaration order (a dict keeps insertion order)
STATE_BOUNDS ==
    << [state |-> "NSW", bounds |-> <<141883391, -36120228, 153636795, -28165654>>],
       [state |-> "VIC", bounds |-> <<141988271, -38634372, 146987789, -34119868>>],
       [state |-> "QLD", bounds |-> <<145596151, -28574471, 153551443, -16723084>>],
       [state |-> "WA",  bounds |-> <<115582252, -33447600, 116320862, -31485581>>],
       [state |-> "SA",  bounds |-> <<137501566, -35588245, 140800519, -32465986>>],
       [state |-> "ACT", bounds |-> <<148973766, -35480152, 149231645, -35139768>>],
       [state |-> "TAS", bounds |-> <<145653797, -43105749, 147534922, -40954031>>],
       [state |-> "NT",  bounds |-> <<130818874, -12629241, 131177811, -12349308>>] >>

RECURSIVE DetermineStatesByBounds(_, _)
\* variant: tests the AOI's bounding box instead of the AOI polygon
DetermineStatesByBounds(aoi, i) ==
    IF i > Len(STATE_BOUNDS) THEN <<>>
    ELSE (IF RectIntersects(Bounds(aoi), STATE_BOUNDS[i].bounds)
             THEN <<STATE_BOUNDS[i].state>> ELSE <<>>)
         \o DetermineStatesByBounds(aoi, i + 1)

RECURSIVE DetermineStatesFrom(_, _)
DetermineStatesFrom(aoi, i) ==
    IF i > Len(STATE_BOUNDS) THEN <<>>
    ELSE LET b == STATE_BOUNDS[i].bounds
             state_box == box(b[1], b[2], b[3], b[4])
         IN  (IF AoiIntersects(aoi, state_box)
                 THEN <<STATE_BOUNDS[i].state>> ELSE <<>>)
             \o DetermineStatesFrom(aoi, i + 1)

\* determine_states(aoi_geometry)
determine_states(aoi) == DetermineStatesFrom(aoi, 1)

\* ---------------------------------------------------------- input space
\* AOIs offered by load_all_aois(), one geometry each.
\* Sydney: two parts with a gap between them (the bounds cover the gap).
AoiSydney   == { <<151200000, -33880000, 151210000, -33870000>>,
                 <<151215000, -33880000, 151220000, -33870000>> }
\* Canberra: inside both the NSW and the ACT extent.
AoiCanberra == { <<149100000, -35300000, 149120000, -35280000>> }
\* Tasman Sea: inside no extent.
AoiOcean    == { <<160000000, -30000000, 160010000, -29990000>> }
\* Two parts either side of the WA extent: the bounds cover it, no part does.
AoiSplit    == { <<115000000, -32500000, 115500000, -32400000>>,
                 <<116400000, -32500000, 116500000, -32400000>> }
\* Shares only its left edge with the right edge of the NT extent.
AoiTouch    == { <<131177811, -12500000, 131200000, -12400000>> }

\* Murray: inside both the NSW and the VIC extent.
AoiMurray   == { <<145000000, -35600000, 145020000, -35580000>> }
\* Tweed: inside both the NSW and the QLD extent.
AoiTweed    == { <<153000000, -28400000, 153020000, -28380000>> }

aois == << AoiSydney, AoiCanberra, AoiOcean, AoiSplit, AoiTouch, AoiMurray, AoiTweed >>

\* building and parcel footprints near Sydney (inside the Sydney bounds)
SIn    == <<151205000, -33875000, 151205100, -33874900>>
SGap   == <<151212000, -33875000, 151212100, -33874900>>
PSmall == <<151204960, -33875000, 151205060, -33874900>>
PBig   == <<151204900, -33875100, 151205090, -33874800>>
PTie   == <<151205010, -33875100, 151205200, -33874800>>
PGap   == <<151212000, -33875100, 151212200, -33874800>>
\* and near Canberra
SCbr   == <<149110000, -35290000, 149110100, -35289900>>
PCbr   == <<149109900, -35290100, 149110200, -35289800>>

\* rows a structures layer may hold
StructureRows ==
    { [structure_id |-> 1, parcel_id |-> 1, geometry |-> SIn],
      [structure_id |-> 2, parcel_id |-> 2, geometry |-> SIn],
      [structure_id |-> 2, parcel_id |-> 1, geometry |-> SGap],
      [structure_id |-> 1, parcel_id |-> 1, geometry |-> SCbr] }

\* rows a parcels layer may hold
ParcelRows ==
    { [parcel_id |-> 1, geometry |-> PSmall],
      [parcel_id |-> 1, geometry |-> PBig],
      [parcel_id |-> 2, geometry |-> PGap],
      [parcel_id |-> 1, geometry |-> PCbr] }

\* a solar panel / pool heater footprint on the SIn roof
AuxOn  == <<151205020, -33874980, 151205040, -33874960>>

\* contents an auxiliary layer (solar_panels, pool_heaters) may hold
AuxLayers == { <<>>, <<[geometry |-> AuxOn]>> }

\* filtered rows the association stage may receive for the Sydney AOI
AssocStructureRows ==
    { [structure_id |-> id, parcel_id |-> pid, geometry |-> SIn] :
        id \in 1..2, pid \in 1..2 }

AssocParcelRows ==
    { [parcel_id |-> 1, geometry |-> PSmall],
      [parcel_id |-> 1, geometry |-> PBig],
      [parcel_id |-> 1, geometry |-> PTie],
      [parcel_id |-> 2, geometry |-> PBig] }

\* ---------------------------------------------------------------- state
VARIABLES
    pc,                      \* position of main()
    exit_code,               \* <<>> while running, <<0>> or <<1>> once main returned
    error,                   \* the condition that ended the run, "" if none
    trace,                   \* functions main() has invoked, in order
    ENABLE_REGULARIZATION,   \* config.py
    ENABLE_MFD_DEDUPLICATION,\* config.py
    REGULARIZATION_AVAILABLE,\* whether buildingregulariser imported
    args_aoi_index,          \* --aoi-index: <<>> when not given, else <<n>>
    call, ret,               \* a function called on its own: arguments, result
    aoi_geometry, aoi_bounds,
    states,                  \* region codes from determine_states
    region,                  \* index in states of the loop's current region
    all_structures, all_solar_panels, all_water_heaters, all_properties,
    structures, solar_panels, water_heaters, properties,
    property_columns,        \* columns of the frame load_property_data returned
    structures_filtered, properties_filtered,
    solar_panels_filtered, water_heaters_filtered,
    joined,                  \* what join_structure_property returned
    merged_data,
    result_gdf,
    output                   \* layers written by save_output

\* what no stage of main() changes: configuration, command line, and the
\* arguments and result of a function called on its own
cfg   == << ENABLE_REGULARIZATION, ENABLE_MFD_DEDUPLICATION, REGULARIZATION_AVAILABLE,
            args_aoi_index, call, ret >>
ctl   == << pc, exit_code, error, trace >>
aoi   == << aoi_geometry, aoi_bounds, states >>
lists == << all_structures, all_solar_panels, all_water_heaters, all_properties >>
arturo  == << structures, solar_panels, water_heaters >>
filt  == << structures_filtered, properties_filtered,
            solar_panels_filtered, water_heaters_filtered >>
late  == << joined, merged_data, result_gdf, output >>

parcels == << properties, property_columns >>

vars == << ctl, cfg, aoi, region, lists, arturo, parcels, filt, late >>

NoOutput == [written |-> FALSE, pre_event_structures |-> <<>>,
             solar_panels |-> <<>>, water_heaters |-> <<>>]

Init ==
    /\ pc = "determine_states"
    /\ exit_code = <<>>
    /\ error = ""
    /\ trace = <<>>
    /\ ENABLE_REGULARIZATION \in BOOLEAN
    /\ ENABLE_MFD_DEDUPLICATION \in BOOLEAN
    /\ REGULARIZATION_AVAILABLE \in BOOLEAN
    /\ \E n \in 1..Len(aois) :
          /\ args_aoi_index = <<n>>
          /\ aoi_geometry = aois[n]
    /\ call = <<>> /\ ret = <<>>
    /\ aoi_bounds = Bounds(aoi_geometry)
    /\ states = <<>>
    /\ region = 1
    /\ all_structures = <<>> /\ all_solar_panels = <<>>
    /\ all_water_heaters = <<>> /\ all_properties = <<>>
    /\ structures = <<>> /\ solar_panels = <<>> /\ water_heaters = <<>>
    /\ properties = <<>> /\ property_columns = {}
    /\ structures_filtered = <<>> /\ properties_filtered = <<>>
    /\ solar_panels_filtered = <<>> /\ water_heaters_filtered = <<>>
    /\ joined = <<>> /\ merged_data = <<>> /\ result_gdf = <<>>
    /\ output = NoOutput

\* main() returns code (or the process exits with it) because of why
Return(code, why) ==
    /\ pc' = "done"
    /\ exit_code' = <<code>>
    /\ error' = why

\* ------------------------------------------------------ region resolution
\* variant: main() goes on to load data without testing for an empty list
DetermineStatesNoCheck ==
    /\ pc = "determine_states"
    /\ states' = determine_states(aoi_geometry)
    /\ trace' = Append(trace, "determine_states")
    /\ pc' = "load_arturo_data"
    /\ UNCHANGED << exit_code, error, cfg, aoi_geometry, aoi_bounds, region,
                    lists, arturo, parcels, filt, late >>

\* main(): states = determine_states(aoi_geometry); if not states: return 1
DetermineStates ==
    /\ pc = "determine_states"
    /\ states' = determine_states(aoi_geometry)
    /\ trace' = Append(trace, "determine_states")
    /\ IF states' = <<>>
       THEN Return(1, "NoRegionMatch")
       ELSE pc' = "load_arturo_data" /\ UNCHANGED << exit_code, error >>
    /\ UNCHANGED << cfg, aoi_geometry, aoi_bounds, region,
                    lists, arturo, parcels, filt, late >>

\* ---------------------------------------------------------- dataset loading
\* gpd.read_file(file, layer=..., bbox=aoi_bounds): the layer's rows whose
\* geometry intersects the bounding box
read_file(content, bbox) ==
    SelectSeqIdx(content,
                 {i \in 1..Len(content) : RectIntersects(content[i].geometry, bbox)}, 1)

\* variant: the except clause of main() returns 0
RaiseReturningZero(why) == Return(0, why)

\* main() caught an exception raised by the stage named why
Raise(why) == Return(1, why)

\* variant: no `continue` after a failed structures read, the auxiliary layers
\* of the region are read all the same
LoadArturoRegionAuxAnyway ==
    /\ pc = "load_arturo_data"
    /\ region <= Len(states)
    /\ region' = region + 1
    /\ trace' = IF region = 1 THEN Append(trace, "load_arturo_data") ELSE trace
    /\ UNCHANGED << pc, exit_code, error, cfg, aoi, all_properties, arturo,
                    parcels, filt, late >>
    /\ \/ UNCHANGED all_structures
       \/ \E content \in BoundedSeq(StructureRows, MaxStructs) :
             /\ Len(Concat(all_structures)) + Len(read_file(content, aoi_bounds))
                    <= MaxStructs
             /\ all_structures' = Append(all_structures, read_file(content, aoi_bounds))
    /\ \/ UNCHANGED all_solar_panels
       \/ \E layer \in AuxLayers :
             all_solar_panels' = Append(all_solar_panels, read_file(layer, aoi_bounds))
    /\ \/ UNCHANGED all_water_heaters
       \/ \E layer \in AuxLayers :
             all_water_heaters' = Append(all_water_heaters, read_file(layer, aoi_bounds))

\* load_arturo_data: one iteration of `for state in states`.  The file may be
\* missing, the structures read may fail, and each auxiliary read may fail.
LoadArturoRegion ==
    /\ pc = "load_arturo_data"
    /\ region <= Len(states)
    /\ region' = region + 1
    /\ trace' = IF region = 1 THEN Append(trace, "load_arturo_data") ELSE trace
    /\ UNCHANGED << pc, exit_code, error, cfg, aoi, all_properties, arturo,
                    parcels, filt, late >>
    /\ \/ \* arturo_file does not exist, or reading the structures layer raised
          UNCHANGED << all_structures, all_solar_panels, all_water_heaters >>
       \/ \E content \in BoundedSeq(StructureRows, MaxStructs) :
             /\ Len(Concat(all_structures)) + Len(read_file(content, aoi_bounds))
                    <= MaxStructs
             /\ all_structures' = Append(all_structures, read_file(content, aoi_bounds))
             /\ \/ UNCHANGED all_solar_panels
                \/ \E layer \in AuxLayers :
                      all_solar_panels' =
                          Append(all_solar_panels, read_file(layer, aoi_bounds))
             /\ \/ UNCHANGED all_water_heaters
                \/ \E layer \in AuxLayers :
                      all_water_heaters' =
                          Append(all_water_heaters, read_file(layer, aoi_bounds))

EmptyGeoDataFrame == <<>>

\* variant: load_arturo_data raises unless every region yielded structures
LoadArturoCombineAllRequired ==
    /\ pc = "load_arturo_data"
    /\ region > Len(states)
    /\ IF Len(all_structures) < Len(states)
       THEN /\ Raise("NoStructureData")
            /\ UNCHANGED << arturo, region >>
       ELSE /\ structures' = Concat(all_structures)
            /\ solar_panels' = Concat(all_solar_panels)
            /\ water_heaters' = Concat(all_water_heaters)
            /\ pc' = "load_property_data"
            /\ region' = 1
            /\ UNCHANGED << exit_code, error >>
    /\ all_structures' = <<>> /\ all_solar_panels' = <<>> /\ all_water_heaters' = <<>>
    /\ UNCHANGED << trace, cfg, aoi, all_properties, parcels, filt, late >>

\* load_arturo_data: after the loop, raise if nothing was loaded, else combine
LoadArturoCombine ==
    /\ pc = "load_arturo_data"
    /\ region > Len(states)
    /\ IF all_structures = <<>>
       THEN /\ Raise("NoStructureData")
            /\ UNCHANGED << arturo, region >>
       ELSE /\ structures' = Concat(all_structures)
            /\ solar_panels' = IF all_solar_panels # <<>>
                                  THEN Concat(all_solar_panels) ELSE EmptyGeoDataFrame
            /\ water_heaters' = IF all_water_heaters # <<>>
                                   THEN Concat(all_water_heaters) ELSE EmptyGeoDataFrame
            /\ pc' = "load_property_data"
            /\ region' = 1
            /\ UNCHANGED << exit_code, error >>
    \* the function's local lists end with the call
    /\ all_structures' = <<>> /\ all_solar_panels' = <<>> /\ all_water_heaters' = <<>>
    /\ UNCHANGED << trace, cfg, aoi, all_properties, parcels, filt, late >>

\* columns of a parcels layer as gpd.read_file returns it (the columns the
\* pipeline reads)
ParcelLayerColumns == {"parcel_id", "geometry"}

\* gpd.GeoDataFrame(columns=['parcel_id', 'geometry'], crs='EPSG:4326')
EmptyPropertyColumns == {"parcel_id", "geometry"}

\* load_property_data: one iteration of `for state in states`
LoadPropertyRegion ==
    /\ pc = "load_property_data"
    /\ region <= Len(states)
    /\ region' = region + 1
    /\ trace' = IF region = 1 THEN Append(trace, "load_property_data") ELSE trace
    /\ UNCHANGED << pc, exit_code, error, cfg, aoi, all_structures,
                    all_solar_panels, all_water_heaters, arturo, parcels,
                    filt, late >>
    /\ \/ \* property_file does not exist, or reading the parcels layer raised
          UNCHANGED all_properties
       \/ \E content \in BoundedSeq(ParcelRows, MaxParcels) :
             /\ Len(Concat(all_properties)) + Len(read_file(content, aoi_bounds))
                    <= MaxParcels
             /\ all_properties' = Append(all_properties, read_file(content, aoi_bounds))

\* variant: load_property_data raises when no region yielded parcels, the way
\* load_arturo_data does for structures
LoadPropertyCombineRaising ==
    /\ pc = "load_property_data"
    /\ region > Len(states)
    /\ IF all_properties = <<>>
       THEN Raise("NoPropertyData") /\ UNCHANGED parcels
       ELSE /\ properties' = Concat(all_properties)
            /\ property_columns' = ParcelLayerColumns
            /\ pc' = "spatial_filter"
            /\ UNCHANGED << exit_code, error >>
    /\ region' = 1
    /\ all_properties' = <<>>
    /\ UNCHANGED << trace, cfg, aoi, all_structures,
                    all_solar_panels, all_water_heaters, arturo, filt, late >>

\* variant: the empty frame is built like load_arturo_data's empty auxiliary
\* frames, gpd.GeoDataFrame(columns=['geometry'])
LoadPropertyCombineGeometryOnly ==
    /\ pc = "load_property_data"
    /\ region > Len(states)
    /\ properties' = IF all_properties = <<>>
                       THEN EmptyGeoDataFrame ELSE Concat(all_properties)
    /\ property_columns' = IF all_properties = <<>>
                             THEN {"geometry"} ELSE ParcelLayerColumns
    /\ pc' = "spatial_filter"
    /\ region' = 1
    /\ all_properties' = <<>>
    /\ UNCHANGED << exit_code, error, trace, cfg, aoi, all_structures,
                    all_solar_panels, all_water_heaters, arturo, filt, late >>

\* load_property_data: after the loop, an empty typed frame or the concatenation
LoadPropertyCombine ==
    /\ pc = "load_property_data"
    /\ region > Len(states)
    /\ properties' = IF all_properties = <<>>
                       THEN EmptyGeoDataFrame ELSE Concat(all_properties)
    /\ property_columns' = IF all_properties = <<>>
                             THEN EmptyPropertyColumns ELSE ParcelLayerColumns
    /\ pc' = "spatial_filter"
    /\ region' = 1
    \* the function's local list ends with the call
    /\ all_properties' = <<>>
    /\ UNCHANGED << exit_code, error, trace, cfg, aoi, all_structures,
                    all_solar_panels, all_water_heaters, arturo, filt, late >>

\* --------------------------------------------------------- spatial filter
\* variant: the features are tested against the AOI's bounding box
spatial_filter_bbox(gdf, aoi_geom) ==
    SelectSeqIdx(gdf, {i \in 1..Len(gdf) :
                          RectIntersects(gdf[i].geometry, Bounds(aoi_geom))}, 1)

\* spatial_filter(gdf, aoi_geometry): gdf[gdf.intersects(aoi_geometry)]
spatial_filter(gdf, aoi_geom) ==
    SelectSeqIdx(gdf, {i \in 1..Len(gdf) : AoiIntersects(aoi_geom, gdf[i].geometry)}, 1)

\* variant: after filtering main() goes back to loading the parcels
SpatialFilterThenReload ==
    /\ pc = "spatial_filter"
    /\ structures_filtered' = spatial_filter(structures, aoi_geometry)
    /\ properties_filtered' = spatial_filter(properties, aoi_geometry)
    /\ solar_panels_filtered' =
           IF Len(solar_panels) > 0 THEN spatial_filter(solar_panels, aoi_geometry)
                                    ELSE solar_panels
    /\ water_heaters_filtered' =
           IF Len(water_heaters) > 0 THEN spatial_filter(water_heaters, aoi_geometry)
                                     ELSE water_heaters
    /\ pc' = "load_property_data"
    /\ trace' = Append(trace, "spatial_filter")
    /\ UNCHANGED << exit_code, error, cfg, aoi, region, lists, arturo,
                    parcels, late >>

\* main(): the four spatial_filter calls (auxiliary layers only when non-empty)
SpatialFilter ==
    /\ pc = "spatial_filter"
    /\ structures_filtered' = spatial_filter(structures, aoi_geometry)
    /\ properties_filtered' = spatial_filter(properties, aoi_geometry)
    /\ solar_panels_filtered' =
           IF Len(solar_panels) > 0 THEN spatial_filter(solar_panels, aoi_geometry)
                                    ELSE solar_panels
    /\ water_heaters_filtered' =
           IF Len(water_heaters) > 0 THEN spatial_filter(water_heaters, aoi_geometry)
                                     ELSE water_heaters
    /\ pc' = "join_structure_property"
    /\ trace' = Append(trace, "spatial_filter")
    /\ UNCHANGED << exit_code, error, cfg, aoi, region, lists, arturo,
                    parcels, late >>

\* ------------------------------------------------------------------- join
\* the parcel columns join_structure_property selects when present
property_cols ==
    {"parcel_id", "geometry", "has_pool", "pools_total_area",
     "has_trampoline", "trampoline_ct", "has_wooden_deck", "wooden_deck_area",
     "has_enclosure", "enclosure_area", "has_tennis_court", "tennis_court_ct",
     "has_basketball_court", "basketball_court_ct",
     "has_sport_pitch", "sport_pitch_ct"}

\* the parcel side of a merged row that found no parcel
NoParcel == [geometry |-> NaN]

\* one row of the merge: the structure's columns, its geometry renamed, the
\* parcel's geometry and the parcel's other selected columns
JoinRow(s, p) ==
    LET left  == (DOMAIN s) \ {"geometry"}
        right == ((DOMAIN p) \cap property_cols) \ {"parcel_id", "geometry"}
    IN  [c \in left \cup right \cup {"geometry_structure", "geometry_property"} |->
            CASE c = "geometry_structure" -> s.geometry
              [] c = "geometry_property" -> p.geometry
              [] c \in right -> p[c]
              [] OTHER -> s[c]]

RECURSIVE MergeOnStructureId(_, _, _)
\* variant: the join key on the left is structure_id instead of parcel_id
MergeOnStructureId(structs, props, i) ==
    IF i > Len(structs) THEN <<>>
    ELSE LET s == structs[i]
             matches == SelectSeqIdx(props,
                            {j \in 1..Len(props) : props[j].parcel_id = s.structure_id}, 1)
         IN  (IF matches = <<>>
                 THEN << JoinRow(s, NoParcel) >>
                 ELSE [j \in 1..Len(matches) |-> JoinRow(s, matches[j])])
             \o MergeOnStructureId(structs, props, i + 1)

RECURSIVE MergeLeft(_, _, _)
\* structures.merge(properties[available_cols], on='parcel_id', how='left',
\* suffixes=('_structure', '_property')): left rows in order, one output row
\* per matching parcel row in parcel order, or one row with a NaN parcel side
MergeLeft(structs, props, i) ==
    IF i > Len(structs) THEN <<>>
    ELSE LET s == structs[i]
             matches == SelectSeqIdx(props,
                            {j \in 1..Len(props) : props[j].parcel_id = s.parcel_id}, 1)
         IN  (IF matches = <<>>
                 THEN << JoinRow(s, NoParcel) >>
                 ELSE [j \in 1..Len(matches) |-> JoinRow(s, matches[j])])
             \o MergeLeft(structs, props, i + 1)

\* merged[merged['geometry_property'].notna()]
DropUnmatched(merged) ==
    SelectSeqIdx(merged, {i \in 1..Len(merged) : merged[i].geometry_property # NaN}, 1)

\* row['geometry_structure'].intersection(row['geometry_property']).area
overlap_area(row) == IntersectionArea(row.geometry_structure, row.geometry_property)

RECURSIVE SortAscendingKeepFirst(_, _)
\* variant: sort_values(..., ascending=True), the smallest overlap comes first
SortAscendingKeepFirst(merged, idxs) ==
    IF idxs = {} THEN { <<>> }
    ELSE LET top == SetMin({overlap_area(merged[i]) : i \in idxs})
             firsts == {i \in idxs : overlap_area(merged[i]) = top}
         IN  UNION { { <<merged[f]>> \o rest :
                         rest \in SortAscendingKeepFirst(merged,
                            {i \in idxs : merged[i].structure_id # merged[f].structure_id}) }
                     : f \in firsts }

RECURSIVE SortKeepFirstPerParcel(_, _)
\* variant: drop_duplicates(subset='parcel_id', keep='first')
SortKeepFirstPerParcel(merged, idxs) ==
    IF idxs = {} THEN { <<>> }
    ELSE LET top == SetMax({overlap_area(merged[i]) : i \in idxs})
             firsts == {i \in idxs : overlap_area(merged[i]) = top}
         IN  UNION { { <<merged[f]>> \o rest :
                         rest \in SortKeepFirstPerParcel(merged,
                            {i \in idxs : merged[i].parcel_id # merged[f].parcel_id}) }
                     : f \in firsts }

RECURSIVE SortKeepFirst(_, _)
\* merged.sort_values('overlap_area', ascending=False)
\*       .drop_duplicates(subset='structure_id', keep='first')
\* The sort is pandas' default quicksort, which is not stable: rows of equal
\* overlap_area may come out in any order.  The set of possible results, over
\* the rows with index in idxs: the next row kept is any remaining row of
\* maximal overlap_area; the remaining rows of its structure_id sort after it
\* or beside it and are dropped.
SortKeepFirst(merged, idxs) ==
    IF idxs = {} THEN { <<>> }
    ELSE LET top == SetMax({overlap_area(merged[i]) : i \in idxs})
             firsts == {i \in idxs : overlap_area(merged[i]) = top}
         IN  UNION { { <<merged[f]>> \o rest :
                         rest \in SortKeepFirst(merged,
                            {i \in idxs : merged[i].structure_id # merged[f].structure_id}) }
                     : f \in firsts }

\* variant: the rows are deduplicated whatever ENABLE_MFD_DEDUPLICATION says
join_structure_property_dedup(structs, props, dedup) ==
    LET merged == DropUnmatched(MergeLeft(structs, props, 1))
    IN  IF Len(merged) = 0 THEN { merged }
        ELSE SortKeepFirst(merged, 1..Len(merged))

\* join_structure_property(structures, properties): the set of frames it may
\* return (one frame, unless equal overlap areas leave the sort order open)
join_structure_property(structs, props, dedup) ==
    LET merged == DropUnmatched(MergeLeft(structs, props, 1))
    IN  IF Len(merged) = 0 THEN { merged }
        ELSE IF dedup THEN SortKeepFirst(merged, 1..Len(merged))
        ELSE { merged }

\* pct = num/den*100 (a whole number here); ZeroDivisionError when den is 0
Percentage(num, den) ==
    IF den = 0 THEN [raised |-> TRUE, pct |-> 0]
    ELSE [raised |-> FALSE, pct |-> (num * 100) \div den]

\* no percentage was computed
NotLogged == [raised |-> FALSE, pct |-> 0]

\* variant: both percentages are computed whatever the counts are
join_percentages_unguarded(structs, props, dedup, result) ==
    LET before_count == Len(MergeLeft(structs, props, 1))
        after_count == Len(DropUnmatched(MergeLeft(structs, props, 1)))
    IN  [dropped |-> Percentage(before_count - after_count, before_count),
         deduplicated |-> Percentage(after_count - Len(result), after_count)]

\* the percentages join_structure_property computes for its log when it
\* returns result: of dropped rows, only when rows were dropped; of removed
\* duplicates, only after the early return for an empty merge, when
\* deduplicating, and when rows were removed
join_percentages(structs, props, dedup, result) ==
    LET before_count == Len(MergeLeft(structs, props, 1))
        after_count == Len(DropUnmatched(MergeLeft(structs, props, 1)))
        skipped == before_count - after_count
        duplicates_before == after_count
        duplicates_removed == duplicates_before - Len(result)
    IN  [dropped |-> IF skipped > 0 THEN Percentage(skipped, before_count)
                     ELSE NotLogged,
         deduplicated |->
             IF after_count # 0 /\ dedup /\ duplicates_removed > 0
                THEN Percentage(duplicates_removed, duplicates_before)
                ELSE NotLogged]

\* a division by zero inside join_structure_property
JoinDivisionRaises(structs, props, dedup, result) ==
    LET p == join_percentages(structs, props, dedup, result)
    IN  p.dropped.raised \/ p.deduplicated.raised

\* merge(on='parcel_id') raises KeyError without a parcel_id column on the
\* right; without a geometry column there the left geometry keeps its name
\* and merged['geometry_property'] raises KeyError
JoinRaises(columns) == ~({"parcel_id", "geometry"} \subseteq columns)

\* variant: main() goes on without testing for an empty join result
JoinWithoutEmptyCheck ==
    /\ pc = "join_structure_property"
    /\ \E m \in join_structure_property(structures_filtered, properties_filtered,
                                       ENABLE_MFD_DEDUPLICATION) :
          /\ merged_data' = m
          /\ joined' = m
    /\ pc' = "regularize_footprints"
    /\ trace' = Append(trace, "join_structure_property")
    /\ UNCHANGED << exit_code, error, cfg, aoi, region, lists, arturo, parcels,
                    filt, result_gdf, output >>

\* main(): merged_data = join_structure_property(...); return 1 if it is empty
JoinStructureProperty ==
    /\ pc = "join_structure_property"
    /\ IF JoinRaises(property_columns)
       THEN Raise("JoinFailed") /\ UNCHANGED << merged_data, joined >>
       ELSE \E m \in join_structure_property(structures_filtered, properties_filtered,
                                            ENABLE_MFD_DEDUPLICATION) :
               IF JoinDivisionRaises(structures_filtered, properties_filtered,
                                     ENABLE_MFD_DEDUPLICATION, m)
                  THEN Raise("JoinFailed") /\ UNCHANGED << merged_data, joined >>
                  ELSE /\ merged_data' = m
                       /\ joined' = m
                       /\ IF Len(m) = 0
                             THEN Return(1, "NoAssociations")
                             ELSE /\ pc' = "regularize_footprints"
                                  /\ UNCHANGED << exit_code, error >>
    /\ trace' = Append(trace, "join_structure_property")
    /\ UNCHANGED << cfg, aoi, region, lists, arturo, parcels, filt,
                    result_gdf, output >>

\* --------------------------------------------------------- regularization
\* structures_for_reg.geometry.union_all().centroid, for footprints of equal
\* area that do not overlap: the mean of the distinct footprints' centres
Centroid(geoms) ==
    LET x0 == SetMin({g[1] : g \in geoms})
        y0 == SetMin({g[2] : g \in geoms})
        RECURSIVE Sum(_, _)
        Sum(S, k) == IF S = {} THEN 0
                     ELSE LET g == CHOOSE h \in S : TRUE
                          IN  ((g[k] + g[k + 2]) \div 2 - (IF k = 1 THEN x0 ELSE y0))
                              + Sum(S \ {g}, k)
    IN  [x |-> x0 + Sum(geoms, 1) \div Cardinality(geoms),
         y |-> y0 + Sum(geoms, 2) \div Cardinality(geoms)]

\* utm_zone = int((centroid.x + 180) / 6) + 1; hemisphere from centroid.y
target_crs(centroid) ==
    [utm_zone |-> ((centroid.x + 180000000) \div 6000000) + 1,
     hemisphere |-> IF centroid.y >= 0 THEN "north" ELSE "south"]

\* easting/northing offsets of a UTM zone: central meridian, false northing
CrsOffset(crs) ==
    [x |-> (crs.utm_zone * 6 - 183) * 1000000,
     y |-> IF crs.hemisphere = "south" THEN 10000000 ELSE 0]

\* gdf.to_crs(target_crs) for one geometry: coordinates relative to the zone
to_crs(g, crs) ==
    LET o == CrsOffset(crs)
    IN  << g[1] - o.x, g[2] + o.y, g[3] - o.x, g[4] + o.y >>

\* regularized.to_crs(original_crs) for one geometry
to_original_crs(g, crs) ==
    LET o == CrsOffset(crs)
    IN  << g[1] + o.x, g[2] - o.y, g[3] + o.x, g[4] - o.y >>

\* the external regularize_geodataframe, for one footprint it returns: an
\* edge-aligned, simplified footprint; here the footprint drawn in by ten
\* units on every side
regularize_geodataframe(g) == << g[1] + 10, g[2] + 10, g[3] - 10, g[4] - 10 >>

\* dict(zip(regularized['structure_id'], regularized.geometry)): for a key
\* that occurs more than once the last value stays
regularized_dict(regularized) ==
    [id \in {regularized[i].structure_id : i \in 1..Len(regularized)} |->
        LET last == SetMax({i \in 1..Len(regularized) : regularized[i].structure_id = id})
        IN  regularized[last].geometry]

\* variant: the mapped geometry is written to both geometry columns
MapGeometryBoth(row, dict) ==
    LET g == IF row.structure_id \in DOMAIN dict THEN dict[row.structure_id] ELSE NaN
    IN  [row EXCEPT !.geometry_structure = g, !.geometry_property = g]

\* merged_data['structure_id'].map(regularized_dict): NaN for an absent key
MapGeometry(row, dict) ==
    [row EXCEPT !.geometry_structure =
        IF row.structure_id \in DOMAIN dict THEN dict[row.structure_id] ELSE NaN]

\* variant: no test of REGULARIZATION_AVAILABLE before regularizing
regularize_footprints_unguarded(merged, available, kept) ==
    LET crs == target_crs(Centroid({merged[i].geometry_structure : i \in 1..Len(merged)}))
        structures_for_reg ==
            [i \in 1..Len(merged) |->
                [structure_id |-> merged[i].structure_id,
                 geometry |-> to_crs(merged[i].geometry_structure, crs)]]
        returned == SelectSeqIdx(structures_for_reg, kept, 1)
        regularized ==
            [i \in 1..Len(returned) |->
                [structure_id |-> returned[i].structure_id,
                 geometry |-> to_original_crs(
                                  regularize_geodataframe(returned[i].geometry), crs)]]
    IN  [i \in 1..Len(merged) |-> MapGeometry(merged[i], regularized_dict(regularized))]

\* regularize_footprints(merged_data), when the external routine returns the
\* rows with index in kept
regularize_footprints(merged, available, kept) ==
    IF ~available THEN merged
    ELSE LET crs == target_crs(Centroid({merged[i].geometry_structure : i \in 1..Len(merged)}))
             structures_for_reg ==
                 [i \in 1..Len(merged) |->
                     [structure_id |-> merged[i].structure_id,
                      geometry |-> to_crs(merged[i].geometry_structure, crs)]]
             returned == SelectSeqIdx(structures_for_reg, kept, 1)
             regularized ==
                 [i \in 1..Len(returned) |->
                     [structure_id |-> returned[i].structure_id,
                      geometry |-> to_original_crs(
                                       regularize_geodataframe(returned[i].geometry), crs)]]
         IN  [i \in 1..Len(merged) |-> MapGeometry(merged[i], regularized_dict(regularized))]

\* variant: main() regularizes whenever the library is available, whatever
\* ENABLE_REGULARIZATION says
RegularizeFootprintsWhenAvailable ==
    /\ pc = "regularize_footprints"
    /\ UNCHANGED << cfg, aoi, region, lists, arturo, parcels, filt,
                    joined, result_gdf, output >>
    /\ IF REGULARIZATION_AVAILABLE
       THEN /\ trace' = Append(trace, "regularize_footprints")
            /\ \E kept \in SUBSET (1..Len(merged_data)) :
                   /\ merged_data' = regularize_footprints_unguarded(merged_data,
                                          REGULARIZATION_AVAILABLE, kept)
                   /\ pc' = "transform_to_preevent_schema"
                   /\ UNCHANGED << exit_code, error >>
       ELSE /\ pc' = "transform_to_preevent_schema"
            /\ UNCHANGED << exit_code, error, trace, merged_data >>

\* main(): regularize if enabled in config and the library is available.
\* The external routine returns a complete collection, possibly without some
\* of the buildings, or fails entirely.
RegularizeFootprints ==
    /\ pc = "regularize_footprints"
    /\ UNCHANGED << cfg, aoi, region, lists, arturo, parcels, filt,
                    joined, result_gdf, output >>
    /\ IF ENABLE_REGULARIZATION /\ REGULARIZATION_AVAILABLE
       THEN /\ trace' = Append(trace, "regularize_footprints")
            /\ \/ \E kept \in SUBSET (1..Len(merged_data)) :
                      /\ merged_data' = regularize_footprints(merged_data,
                                             REGULARIZATION_AVAILABLE, kept)
                      /\ pc' = "transform_to_preevent_schema"
                      /\ UNCHANGED << exit_code, error >>
               \/ /\ Raise("RegularizationFailed")
                  /\ UNCHANGED merged_data
       ELSE /\ pc' = "transform_to_preevent_schema"
            /\ UNCHANGED << exit_code, error, trace, merged_data >>

\* ------------------------------------------------------ schema transformer
\* Python's None, True, False and the float NaN as attribute values
None == "None"
PyTrue == "True"
PyFalse == "False"
nan == "nan"

\* bool(v): None and False are false, True and NaN are true
Truthy(v) == v \notin {None, PyFalse}

\* pd.notna(v)
notna(v) == v \notin {None, nan}

\* row.get(name, default)
Get(row, name, default) == IF name \in DOMAIN row THEN row[name] ELSE default

\* dict.get(key, default)
MapGet(map, key, default) == IF key \in DOMAIN map THEN map[key] ELSE default

\* variant: the None entry of the shape table maps None to itself
RoofShapeMapNoneKept ==
    [k \in {"gable", "hip", "flat", None} |-> k]

ROOF_SHAPE_MAP ==
    [k \in {"gable", "hip", "flat", None} |->
        IF k = None THEN "Unknown" ELSE k]

ROOF_MATERIAL_MAP ==
    [k \in {"metal", "concrete_tile", "clay_tile", "tile", "solid_concrete",
            "other_material", None} |->
        CASE k = "metal" -> "metal"
          [] k \in {"concrete_tile", "clay_tile", "tile"} -> "tile"
          [] k = "solid_concrete" -> "membrane"
          [] OTHER -> "Unknown"]

\* the scores 4.0, 3.0, 2.0, 5.0 as integers
ROOF_CONDITION_MAP ==
    [k \in {"good", "fair", "poor", "excellent", None} |->
        CASE k = "good" -> 4
          [] k = "fair" -> 3
          [] k = "poor" -> 2
          [] k = "excellent" -> 5
          [] OTHER -> 3]

\* get_aoi_metadata(selected_aoi, aoi_geometry), the keys the transformer reads
aoi_metadata ==
    [event_id |-> "graydata-735", collection |-> "graydata-735",
     layer |-> "pre_event_structures", avg_gsd |-> 0]

\* aux.geometry.union_all() when the layer has rows and the union did not
\* raise, else None
UnionOrNone(aux, raised) ==
    IF Len(aux) > 0 /\ ~raised
       THEN [none |-> FALSE, parts |-> {aux[i].geometry : i \in 1..Len(aux)}]
       ELSE [none |-> TRUE, parts |-> {}]

\* variant: structure_geom.within(union) in place of intersects
HasAuxWithin(structure_geom, union, raised) ==
    IF union.none THEN FALSE
    ELSE IF raised \/ structure_geom = NaN THEN FALSE
    ELSE \E p \in union.parts :
            /\ p[1] <= structure_geom[1] /\ structure_geom[3] <= p[3]
            /\ p[2] <= structure_geom[2] /\ structure_geom[4] <= p[4]

\* has_solar / has_water_heater: False when the union is None, and False when
\* structure_geom.intersects(union) raises (for this row, or because a NaN
\* geometry has no intersects)
HasAux(structure_geom, union, raised) ==
    IF union.none THEN FALSE
    ELSE IF raised \/ structure_geom = NaN THEN FALSE
    ELSE \E p \in union.parts : RectIntersects(structure_geom, p)

\* has_sport: the tennis, basketball and sport pitch flags combined
HasSport(row) ==
    \/ Truthy(Get(row, "has_tennis_court", PyFalse))
    \/ Truthy(Get(row, "has_basketball_court", PyFalse))
    \/ (IF notna(Get(row, "has_sport_pitch", None))
           THEN Truthy(Get(row, "has_sport_pitch", PyFalse)) ELSE FALSE)

\* 'TRUE' if b else 'FALSE'
TrueFalse(b) == IF b THEN "TRUE" ELSE "FALSE"

\* columns 4-12, whose names are not identifiers
BuildingMetadata(row) ==
    ("B.CAPTURE_PROJECT" :> Get(row, "vexcel_collection_name", None))
    @@ ("B.LAYERNAME" :> "bluesky-ultra-oceania")
    @@ ("B.IMAGEID" :> None)
    @@ ("B.CHILD_AOI" :> Get(row, "vexcel_collection_name", None))
    @@ ("B.ORTHOVSNADIR" :> "ortho")
    @@ ("B.CAMERATECHNOLOGY" :> "UltraCam_Osprey_4.1_f120")
    @@ ("B.IMGDATE" :> None)
    @@ ("B.IMGGSD" :> aoi_metadata.avg_gsd)

\* the record dict but for PARCELWKT (floats as integers)
RecordBut(row, has_solar, has_water_heater) ==
    [BUILDINGS_IDS   |-> Get(row, "structure_id", None),
     PEID            |-> Get(row, "structure_id", None),
     METADATAVERSION |-> "3.90.1",
     POOLAREA        |-> Get(row, "pools_total_area", 0),
     TRAMPOLINE      |-> TrueFalse(Truthy(Get(row, "has_trampoline", PyFalse))),
     TRAMPSCR        |-> None,
     DECK            |-> TrueFalse(Truthy(Get(row, "has_wooden_deck", PyFalse))),
     DECKSCR         |-> None,
     POOL            |-> TrueFalse(Truthy(Get(row, "has_pool", PyFalse))),
     POOLSCR         |-> None,
     ENCLOSURE       |-> TrueFalse(Truthy(Get(row, "has_enclosure", PyFalse))),
     ENCLOSUSCR      |-> None,
     DIVINGBOAR      |-> None,
     DIVINGSCR       |-> None,
     WATERSLIDE      |-> None,
     WATSLIDSCR      |-> None,
     PLAYGROUND      |-> None,
     PLAYGSCR        |-> None,
     SPORTCOURT      |-> TrueFalse(HasSport(row)),
     SPORTSCR        |-> None,
     PRIMARYSTR      |-> TrueFalse(Truthy(Get(row, "is_primary", PyFalse))),
     ROOFTOPGEO      |-> Wkt(row.geometry_structure),
     GROUNDELEV      |-> None,
     DETECTSCR       |-> 1,
     ROOFSHAPE       |-> MapGet(ROOF_SHAPE_MAP,
                                Get(row, "roof_shape_majority", None), "Unknown"),
     ROOFSHASCR      |-> None,
     ROOFMATERI      |-> MapGet(ROOF_MATERIAL_MAP,
                                Get(row, "roof_material_majority", None), "Unknown"),
     ROOFMATSCR      |-> 1,
     ROOFCONDIT      |-> MapGet(ROOF_CONDITION_MAP,
                                Get(row, "roof_condition_general", None), 3),
     ROOFSOLAR       |-> IF has_solar THEN "SOLAR PANEL" ELSE "NO SOLAR PANEL",
     ROOFTREE        |-> Get(row, "roof_tree_overlap_pct", 0),
     DST5 |-> None, DSB5 |-> None, DST30 |-> None, DSB30 |-> None,
     DST100 |-> None, DSB100 |-> None, DST200 |-> None, DSB200 |-> None,
     CATASTROPHESCORE |-> 0,
     ROOFCONDIT_MISSINGMATERIALPERCEN |-> 0,
     ROOFCONDIT_TARPPERCEN     |-> 0,
     ROOFCONDIT_DEBRISPERCENT  |-> 0,
     ROOFCONDIT_DISCOLORDETECT |-> "FALSE",
     ROOFCONDIT_DISCOLORPERCEN |-> 0,
     ROOFCONDIT_DISCOLORSCORE  |-> 0,
     DAMAGE_LEVEL    |-> None,
     HISTOSCORE      |-> 0,
     CAPTURE_PROJECT |-> aoi_metadata.collection,
     LAYERNAME       |-> aoi_metadata.layer,
     IMAGEID         |-> None,
     CHILD_AOI       |-> aoi_metadata.event_id,
     ORTHOVSNADIR    |-> "ortho",
     CAMERATECHNOLOGY |-> "UltraCam_Osprey_4.1_f120",
     IMGDATE         |-> None,
     IMGGSD          |-> aoi_metadata.avg_gsd,
     DSKWT5 |-> None, DSKWT30 |-> None, DSKWT100 |-> None, DSKWT200 |-> None,
     task_structures_info |-> None,
     structures_count |-> None,
     property_id     |-> None,
     ROOFCONDIT_STRUCTURALDAMAGEPERCEN |-> 0,
     ROOFWATERHEATER |-> IF has_water_heater THEN "WATER HEATER"
                                             ELSE "NO WATER HEATER",
     geometry        |-> row.geometry_structure]
    @@ BuildingMetadata(row)

\* variant: PARCELWKT is taken from the building footprint
RecordBuildingWkt(row, has_solar, has_water_heater) ==
    [PARCELWKT |-> Wkt(row.geometry_structure)]
    @@ RecordBut(row, has_solar, has_water_heater)

\* variant: a column whose source attribute is absent from the row is left out
RecordOfPresent(row, has_solar, has_water_heater) ==
    LET record == [PARCELWKT |-> Wkt(row.geometry_property)]
                  @@ RecordBut(row, has_solar, has_water_heater)
        absent == IF "is_primary" \in DOMAIN row THEN {} ELSE {"PRIMARYSTR"}
    IN  [c \in (DOMAIN record) \ absent |-> record[c]]

\* the record dict built for one row of merged_data
Record(row, has_solar, has_water_heater) ==
    [PARCELWKT |-> Wkt(row.geometry_property)]
    @@ RecordBut(row, has_solar, has_water_heater)

\* what may go wrong inside one call of transform_to_preevent_schema without
\* ending it: union_all() raising for either layer, and intersects() raising
\* for some building geometries (each caught where it is raised).  A union is
\* only built for a layer with rows, a geometry only tested against a union
\* that exists; whether the test raises depends on the geometry and the union,
\* so rows of equal geometry fare alike.
TransformFailures(merged, solar, water) ==
    LET geoms == {merged[i].geometry_structure : i \in 1..Len(merged)}
    IN  UNION { { [solar_union |-> su, water_union |-> wu,
                   solar_geoms |-> sg, water_geoms |-> wg] :
                    sg \in SUBSET (IF Len(solar) > 0 /\ ~su THEN geoms ELSE {}),
                    wg \in SUBSET (IF Len(water) > 0 /\ ~wu THEN geoms ELSE {}) } :
                su \in (IF Len(solar) > 0 THEN BOOLEAN ELSE {FALSE}),
                wu \in (IF Len(water) > 0 THEN BOOLEAN ELSE {FALSE}) }

\* transform_to_preevent_schema(merged_data, solar_panels, water_heaters,
\* aoi_metadata), with the caught exceptions of the call given by fail
transform_to_preevent_schema(merged, solar, water, fail) ==
    LET solar_union == UnionOrNone(solar, fail.solar_union)
        water_union == UnionOrNone(water, fail.water_union)
    IN  [i \in 1..Len(merged) |->
            Record(merged[i],
                   HasAux(merged[i].geometry_structure, solar_union,
                          merged[i].geometry_structure \in fail.solar_geoms),
                   HasAux(merged[i].geometry_structure, water_union,
                          merged[i].geometry_structure \in fail.water_geoms))]

\* structure_geom.wkt / property_geom.wkt raise AttributeError on a NaN
TransformRaises(merged) ==
    \E i \in 1..Len(merged) :
        merged[i].geometry_structure = NaN \/ merged[i].geometry_property = NaN

\* main(): result_gdf = transform_to_preevent_schema(...)
TransformToPreeventSchema ==
    /\ pc = "transform_to_preevent_schema"
    /\ trace' = Append(trace, "transform_to_preevent_schema")
    /\ IF TransformRaises(merged_data)
       THEN /\ Raise("TransformFailed")
            /\ UNCHANGED result_gdf
       ELSE /\ \E fail \in TransformFailures(merged_data, solar_panels_filtered,
                                             water_heaters_filtered) :
                   result_gdf' = transform_to_preevent_schema(merged_data,
                                     solar_panels_filtered, water_heaters_filtered, fail)
            /\ pc' = "save_output"
            /\ UNCHANGED << exit_code, error >>
    /\ UNCHANGED << cfg, aoi, region, lists, arturo, parcels, filt,
                    joined, merged_data, output >>

\* ------------------------------------------------------------------ output
\* main(): save_output(...), print_summary(...), return 0.  Writing a layer
\* may raise; the layers written before it stay on disk.
SaveOutput ==
    /\ pc = "save_output"
    /\ trace' = Append(trace, "save_output")
    /\ \/ /\ output' = [written |-> TRUE,
                         pre_event_structures |-> result_gdf,
                         solar_panels |-> solar_panels_filtered,
                         water_heaters |-> water_heaters_filtered]
          /\ Return(0, "")
       \/ /\ output' \in { NoOutput,
                            [NoOutput EXCEPT !.pre_event_structures = result_gdf] }
          /\ Raise("SaveFailed")
    /\ UNCHANGED << cfg, aoi, region, lists, arturo, parcels, filt,
                    joined, merged_data, result_gdf >>

\* ----------------------------------------------------------- specification
Next ==
    \/ DetermineStates
    \/ LoadArturoRegion
    \/ LoadArturoCombine
    \/ LoadPropertyRegion
    \/ LoadPropertyCombine
    \/ SpatialFilter
    \/ JoinStructureProperty
    \/ RegularizeFootprints
    \/ TransformToPreeventSchema
    \/ SaveOutput

Spec == Init /\ [][Next]_vars

\* The association stage onwards, for every pair of filtered frames: main()
\* has selected the Sydney AOI, loaded and filtered, and is about to join.
InitAssoc ==
    /\ pc = "join_structure_property"
    /\ exit_code = <<>>
    /\ error = ""
    /\ trace = << "determine_states", "load_arturo_data", "load_property_data",
                  "spatial_filter" >>
    /\ ENABLE_REGULARIZATION \in BOOLEAN
    /\ ENABLE_MFD_DEDUPLICATION \in BOOLEAN
    \* the regularization library is installed
    /\ REGULARIZATION_AVAILABLE = TRUE
    /\ args_aoi_index = <<1>>
    /\ call = <<>> /\ ret = <<>>
    /\ aoi_geometry = AoiSydney
    /\ aoi_bounds = Bounds(AoiSydney)
    /\ states = determine_states(AoiSydney)
    /\ region = 1
    /\ all_structures = <<>> /\ all_solar_panels = <<>>
    /\ all_water_heaters = <<>> /\ all_properties = <<>>
    /\ structures \in BoundedSeq(AssocStructureRows, MaxStructs)
    /\ properties \in BoundedSeq(AssocParcelRows, MaxParcels)
    /\ property_columns = ParcelLayerColumns
    /\ solar_panels = <<>> /\ water_heaters = <<>>
    /\ structures_filtered = spatial_filter(structures, aoi_geometry)
    /\ properties_filtered = spatial_filter(properties, aoi_geometry)
    /\ solar_panels_filtered = <<>> /\ water_heaters_filtered = <<>>
    /\ joined = <<>> /\ merged_data = <<>> /\ result_gdf = <<>>
    /\ output = NoOutput

NextAssoc ==
    \/ JoinStructureProperty
    \/ RegularizeFootprints
    \/ TransformToPreeventSchema
    \/ SaveOutput

SpecAssoc == InitAssoc /\ [][NextAssoc]_vars

\* the join alone, on the same filtered rows
NextJoin == JoinStructureProperty

SpecJoin == InitAssoc /\ [][NextJoin]_vars

\* The transformer's inputs: a second building SOut on its own parcel POut,
\* a solar panel / pool heater footprint AuxOut on its roof
SOut   == <<151206000, -33875000, 151206100, -33874900>>
POut   == <<151205900, -33875100, 151206200, -33874800>>
AuxOut == <<151206020, -33874980, 151206040, -33874960>>

\* rows of a structures layer that has an is_primary column, or has none (a
\* frame has the same columns in every row)
TransformStructureRows(with_primary) ==
    LET rows == { [structure_id |-> 1, parcel_id |-> 1, geometry |-> SIn],
                  [structure_id |-> 2, parcel_id |-> 2, geometry |-> SOut] }
    IN  IF with_primary
           THEN { [c \in (DOMAIN r) \cup {"is_primary"} |->
                      IF c = "is_primary" THEN PyTrue ELSE r[c]] : r \in rows }
           ELSE rows

\* parcel frames: one row per parcel_id, so that the join result has at most
\* one row per structure row
TransformParcelFrames ==
    LET p1 == [parcel_id |-> 1, geometry |-> PBig]
        p2 == [parcel_id |-> 2, geometry |-> POut]
    IN  { <<p1>>, <<p2>>, <<p1, p2>>, <<p2, p1>> }

TransformSolarLayers ==
    { <<>>, <<[geometry |-> AuxOn]>>, <<[geometry |-> AuxOn], [geometry |-> AuxOut]>> }

TransformWaterLayers == { <<>>, <<[geometry |-> AuxOut]>> }

\* Regularization onwards: main() has selected the Sydney AOI, loaded,
\* filtered and joined, the join result is not empty.
InitTransform ==
    /\ pc = "regularize_footprints"
    /\ exit_code = <<>>
    /\ error = ""
    /\ trace = << "determine_states", "load_arturo_data", "load_property_data",
                  "spatial_filter", "join_structure_property" >>
    /\ ENABLE_REGULARIZATION \in BOOLEAN
    /\ ENABLE_MFD_DEDUPLICATION \in BOOLEAN
    /\ REGULARIZATION_AVAILABLE \in BOOLEAN
    /\ args_aoi_index = <<1>>
    /\ call = <<>> /\ ret = <<>>
    /\ aoi_geometry = AoiSydney
    /\ aoi_bounds = Bounds(AoiSydney)
    /\ states = determine_states(AoiSydney)
    /\ region = 1
    /\ all_structures = <<>> /\ all_solar_panels = <<>>
    /\ all_water_heaters = <<>> /\ all_properties = <<>>
    /\ \E with_primary \in BOOLEAN :
           structures \in BoundedSeq(TransformStructureRows(with_primary), MaxStructs)
    /\ properties \in TransformParcelFrames
    /\ property_columns = ParcelLayerColumns
    /\ solar_panels \in TransformSolarLayers
    /\ water_heaters \in TransformWaterLayers
    /\ structures_filtered = spatial_filter(structures, aoi_geometry)
    /\ properties_filtered = spatial_filter(properties, aoi_geometry)
    /\ solar_panels_filtered = spatial_filter(solar_panels, aoi_geometry)
    /\ water_heaters_filtered = spatial_filter(water_heaters, aoi_geometry)
    /\ joined \in join_structure_property(structures_filtered, properties_filtered,
                                          ENABLE_MFD_DEDUPLICATION)
    /\ Len(joined) > 0
    /\ merged_data = joined
    /\ result_gdf = <<>>
    /\ output = NoOutput

NextTransform ==
    \/ RegularizeFootprints
    \/ TransformToPreeventSchema
    \/ SaveOutput

SpecTransform == InitTransform /\ [][NextTransform]_vars

\* --------------------------------------------- attribute values of the rows
\* The transformer on one building and its parcel, over the values their
\* attribute columns may carry: a value of the layer, None or NaN for a null
\* (NaN is also what pd.concat leaves in a column one region's layer lacks),
\* or no such column at all.
RoofSource ==
    [roof_shape_majority    |-> {"gable", "hip", "flat", "dome", None, nan},
     roof_material_majority |-> {"metal", "concrete_tile", "clay_tile", "tile",
                                 "solid_concrete", "other_material", "thatch",
                                 None, nan},
     roof_condition_general |-> {"good", "fair", "poor", "excellent", "severe",
                                 None, nan}]

\* the attribute rows over columns cols: every subset of the columns, every
\* value of values[c] for a column c that is there
AttrRows(cols, values) ==
    UNION { { r \in [S -> UNION {values[c] : c \in S}] :
                \A c \in S : r[c] \in values[c] } : S \in SUBSET cols }

FlagValues == {PyTrue, PyFalse, None, nan}

ParcelFlagColumns == {"has_pool", "has_trampoline", "has_wooden_deck", "has_enclosure"}

SportFlagColumns == {"has_tennis_court", "has_basketball_court", "has_sport_pitch"}

\* the roof attributes vary, or the four parcel flags, or the three sport flags
RecordInputs ==
    { [structure |-> r, parcel |-> << >>] : r \in AttrRows(DOMAIN RoofSource, RoofSource) }
    \cup { [structure |-> << >>, parcel |-> f] :
              f \in AttrRows(ParcelFlagColumns, [c \in ParcelFlagColumns |-> FlagValues]) }
    \cup { [structure |-> << >>, parcel |-> f] :
              f \in AttrRows(SportFlagColumns, [c \in SportFlagColumns |-> FlagValues]) }

InitRecord ==
    /\ pc = "join_structure_property"
    /\ exit_code = <<>>
    /\ error = ""
    /\ trace = << "determine_states", "load_arturo_data", "load_property_data",
                  "spatial_filter" >>
    /\ ENABLE_REGULARIZATION \in BOOLEAN
    /\ ENABLE_MFD_DEDUPLICATION = TRUE
    /\ REGULARIZATION_AVAILABLE = TRUE
    /\ args_aoi_index = <<1>>
    /\ call = <<>> /\ ret = <<>>
    /\ aoi_geometry = AoiSydney
    /\ aoi_bounds = Bounds(AoiSydney)
    /\ states = determine_states(AoiSydney)
    /\ region = 1
    /\ all_structures = <<>> /\ all_solar_panels = <<>>
    /\ all_water_heaters = <<>> /\ all_properties = <<>>
    /\ \E in \in RecordInputs :
          /\ structures = << [structure_id |-> 1, parcel_id |-> 1, geometry |-> SIn]
                             @@ in.structure >>
          /\ properties = << [parcel_id |-> 1, geometry |-> PBig] @@ in.parcel >>
    /\ property_columns = DOMAIN properties[1]
    /\ solar_panels = <<>> /\ water_heaters = <<>>
    /\ structures_filtered = spatial_filter(structures, aoi_geometry)
    /\ properties_filtered = spatial_filter(properties, aoi_geometry)
    /\ solar_panels_filtered = <<>> /\ water_heaters_filtered = <<>>
    /\ joined = <<>> /\ merged_data = <<>> /\ result_gdf = <<>>
    /\ output = NoOutput

NextRecord ==
    \/ JoinStructureProperty
    \/ RegularizeFootprints
    \/ TransformToPreeventSchema
    \/ SaveOutput

SpecRecord == InitRecord /\ [][NextRecord]_vars

\* ----------------------------------------------------------- AOI selection
\* if args.aoi_index: an option that was not given (None) and 0 are both false
IndexGiven(index) == index # <<>> /\ index[1] # 0

\* main(): selected_aoi = aois[aoi_index], get_aoi_geometry (sys.exit(1)
\* for an AOI that carries no geometry), bounds
Selected(n) ==
    \/ /\ aoi_geometry' = aois[n]
       /\ aoi_bounds' = Bounds(aois[n])
       /\ pc' = "determine_states"
       /\ UNCHANGED << exit_code, error >>
    \/ /\ Return(1, "NoAoiGeometry")
       /\ UNCHANGED << aoi_geometry, aoi_bounds >>

\* main(): the AOI is taken by --aoi-index when that is given, checked
\* against 1..len(aois), else by select_aoi_interactive, which prompts until
\* it has a number in range or the user quits (sys.exit(0))
SelectAoi ==
    /\ pc = "select_aoi"
    /\ IF IndexGiven(args_aoi_index)
       THEN LET aoi_index == args_aoi_index[1] - 1
            IN  /\ IF aoi_index < 0 \/ aoi_index >= Len(aois)
                      THEN /\ Return(1, "InvalidAoiIndex")
                           /\ UNCHANGED << aoi_geometry, aoi_bounds >>
                      ELSE Selected(aoi_index + 1)
                /\ UNCHANGED trace
       ELSE /\ trace' = Append(trace, "select_aoi_interactive")
            /\ \/ \E n \in 1..Len(aois) : Selected(n)
               \/ /\ Return(0, "UserQuit")
                  /\ UNCHANGED << aoi_geometry, aoi_bounds >>
    /\ UNCHANGED << cfg, states, region, lists, arturo, parcels, filt, late >>

\* values of --aoi-index: not given, or an integer in, on the edge of, or
\* out of range
AoiIndexArgs == { <<>> } \cup { <<n>> : n \in (-1)..(Len(aois) + 1) }

InitSelect ==
    /\ pc = "select_aoi"
    /\ exit_code = <<>>
    /\ error = ""
    /\ trace = <<>>
    /\ ENABLE_REGULARIZATION = TRUE
    /\ ENABLE_MFD_DEDUPLICATION = TRUE
    /\ REGULARIZATION_AVAILABLE = TRUE
    /\ args_aoi_index \in AoiIndexArgs
    /\ call = <<>> /\ ret = <<>>
    /\ aoi_geometry = {}
    /\ aoi_bounds = <<>>
    /\ states = <<>>
    /\ region = 1
    /\ all_structures = <<>> /\ all_solar_panels = <<>>
    /\ all_water_heaters = <<>> /\ all_properties = <<>>
    /\ structures = <<>> /\ solar_panels = <<>> /\ water_heaters = <<>>
    /\ properties = <<>> /\ property_columns = {}
    /\ structures_filtered = <<>> /\ properties_filtered = <<>>
    /\ solar_panels_filtered = <<>> /\ water_heaters_filtered = <<>>
    /\ joined = <<>> /\ merged_data = <<>> /\ result_gdf = <<>>
    /\ output = NoOutput

NextSelect ==
    \/ SelectAoi
    \/ Next

SpecSelect == InitSelect /\ [][NextSelect]_vars

\* ------------------------------------------- functions called on their own
\* the state of main() that a function called on its own leaves alone
pipeline ==
    << exit_code, error, trace, ENABLE_REGULARIZATION, ENABLE_MFD_DEDUPLICATION,
       REGULARIZATION_AVAILABLE, args_aoi_index, aoi, region, lists, arturo,
       parcels, filt, late >>

\* main() is not running
PipelineIdle ==
    /\ exit_code = <<>> /\ error = "" /\ trace = <<>>
    /\ ENABLE_REGULARIZATION = TRUE /\ ENABLE_MFD_DEDUPLICATION = TRUE
    /\ REGULARIZATION_AVAILABLE = TRUE
    /\ args_aoi_index = <<>>
    /\ aoi_geometry = {} /\ aoi_bounds = <<>> /\ states = <<>>
    /\ region = 1
    /\ all_structures = <<>> /\ all_solar_panels = <<>>
    /\ all_water_heaters = <<>> /\ all_properties = <<>>
    /\ structures = <<>> /\ solar_panels = <<>> /\ water_heaters = <<>>
    /\ properties = <<>> /\ property_columns = {}
    /\ structures_filtered = <<>> /\ properties_filtered = <<>>
    /\ solar_panels_filtered = <<>> /\ water_heaters_filtered = <<>>
    /\ joined = <<>> /\ merged_data = <<>> /\ result_gdf = <<>>
    /\ output = NoOutput

\* footprints anywhere on the globe: west edges on and beside zone borders,
\* the antimeridian included; widths 0 (a sliver) and 100; south edges below,
\* across and on the equator
ZoneLongitudes ==
    { -180000000, -174000100, -174000000, -6000000, -100, 0, 5999900, 6000000,
      151205000, 173999900, 179999900, 180000000 }

ZoneLatitudes == { -80000000, -33875000, -100, -50, 0, 45000000 }

ZoneFootprints ==
    { box(x, y, x + w, y + 100) :
        x \in ZoneLongitudes, y \in ZoneLatitudes, w \in {0, 100} }

\* pyproj accepts +proj=utm with a zone from 1 to 60 only
ValidCrs(crs) == crs.utm_zone \in 1..60

InitZone ==
    /\ pc = "call"
    /\ PipelineIdle
    /\ \E g \in ZoneFootprints :
          /\ g[3] <= 180000000
          /\ call = [f |-> "regularize_footprints",
                     merged_data |-> << [structure_id |-> 1, parcel_id |-> 1,
                                         geometry_structure |-> g,
                                         geometry_property |-> g] >>]
    /\ ret = <<>>

\* regularize_footprints(merged_data) called on its own: to_crs raises for a
\* target_crs pyproj rejects, else as in main()
CallRegularizeFootprints ==
    /\ pc = "call"
    /\ call.f = "regularize_footprints"
    /\ LET merged == call.merged_data
           crs == target_crs(Centroid({merged[i].geometry_structure :
                                          i \in 1..Len(merged)}))
       IN  IF ~ValidCrs(crs)
              THEN ret' = [raised |-> TRUE, target_crs |-> crs, merged_data |-> merged]
              ELSE \E kept \in SUBSET (1..Len(merged)) :
                      ret' = [raised |-> FALSE, target_crs |-> crs,
                              merged_data |-> regularize_footprints(merged, TRUE, kept)]
    /\ pc' = "returned"
    /\ UNCHANGED << call, pipeline >>

NextZone == CallRegularizeFootprints

SpecZone == InitZone /\ [][NextZone]_vars

\* load_api_collections(): the Graysky layers it queries, in query order
layers_to_query == << "graysky", "graysky-suncorp" >>

\* a GeoJSON geometry shapely_shape raises on
Malformed == "malformed"

\* features a layer's response may hold: the collection name is empty or
\* not; the geometry is a polygon, null, or malformed
ApiFeatures ==
    { [collection |-> c, geometry |-> g] :
        c \in {"", "a", "b"}, g \in {"Polygon", None, Malformed} }

\* what client.get_collections gives for a layer: it raises, or it returns
\* a response with n features
ApiResponses(n) ==
    { [raised |-> FALSE, features |-> s] : s \in [1..n -> ApiFeatures] }
    \cup (IF n = 0 THEN { [raised |-> TRUE, features |-> <<>>] } ELSE {})

\* the dict appended to api_aois for a feature of a layer
ApiEntry(feature, layer) ==
    [collection_id |-> feature.collection, name |-> feature.collection,
     source_type |-> "API", layer |-> layer, source_path |-> None,
     geometry |-> feature.geometry]

\* the body of the loop over the features, for one feature: skip an empty or
\* seen name; else record the name as seen, convert the geometry (which
\* raises on a malformed one) and append the entry
ProcessFeature(feature, layer, acc) ==
    IF feature.collection = "" \/ feature.collection \in acc.seen_collections
       THEN acc
    ELSE IF feature.geometry = Malformed
       THEN [acc EXCEPT !.seen_collections = @ \cup {feature.collection},
                        !.raised = TRUE]
    ELSE [acc EXCEPT !.seen_collections = @ \cup {feature.collection},
                     !.api_aois = Append(@, ApiEntry(feature, layer))]

RECURSIVE ProcessFeatures(_, _, _, _)
\* for feature in features, until the end or an exception
ProcessFeatures(features, i, layer, acc) ==
    IF i > Len(features) \/ acc.raised THEN acc
    ELSE ProcessFeatures(features, i + 1, layer,
                         ProcessFeature(features[i], layer, acc))

RECURSIVE QueryLayers(_, _, _)
\* for layer in layers_to_query: an exception of the query or of the
\* processing of a feature is caught, and the loop goes on to the next layer
QueryLayers(responses, k, acc) ==
    IF k > Len(layers_to_query) THEN acc
    ELSE QueryLayers(responses, k + 1,
            IF responses[k].raised THEN acc
            ELSE [ProcessFeatures(responses[k].features, 1, layers_to_query[k], acc)
                     EXCEPT !.raised = FALSE])

\* load_api_collections(): no collections without the client library, without
\* credentials, or when authentication raises
load_api_collections(available, credentials, authenticated, responses) ==
    IF ~available \/ ~credentials \/ ~authenticated THEN <<>>
    ELSE QueryLayers(responses, 1,
                     [api_aois |-> <<>>, seen_collections |-> {},
                      raised |-> FALSE]).api_aois

InitApi ==
    /\ pc = "call"
    /\ PipelineIdle
    /\ \/ \E n1 \in 0..MaxFeatures : \E n2 \in 0..(MaxFeatures - n1) :
          \E r1 \in ApiResponses(n1), r2 \in ApiResponses(n2) :
              call = [f |-> "load_api_collections", available |-> TRUE,
                      credentials |-> TRUE, authenticated |-> TRUE,
                      responses |-> << r1, r2 >>]
       \/ \E available, credentials, authenticated \in BOOLEAN :
             /\ ~available \/ ~credentials \/ ~authenticated
             /\ call = [f |-> "load_api_collections", available |-> available,
                        credentials |-> credentials, authenticated |-> authenticated,
                        responses |-> << >>]
    /\ ret = <<>>

\* load_api_collections() called on its own
CallLoadApiCollections ==
    /\ pc = "call"
    /\ call.f = "load_api_collections"
    /\ ret' = load_api_collections(call.available, call.credentials,
                                   call.authenticated, call.responses)
    /\ pc' = "returned"
    /\ UNCHANGED << call, pipeline >>

NextApi == CallLoadApiCollections

SpecApi == InitApi /\ [][NextApi]_vars

\* test_footprint_regularization.py, count_orthogonal_edges.  A polygon is
\* given by the edges of its exterior ring in order: <<a>> for an edge whose
\* direction np.degrees(np.arctan2(dy, dx)) is a degrees (-180 < a <= 180),
\* <<>> for an edge of no length (dx = 0 and dy = 0).
EdgeDirections ==
    { -179, -135, -91, -3, -1, 0, 2, 3, 45, 88, 137, 178, 179, 180 }

Edges == { <<>> } \cup { <<a>> : a \in EdgeDirections }

Abs(x) == IF x >= 0 THEN x ELSE -x

target_angles == << 0, 45, 90, 135 >>

\* the loop body: a zero-length edge is skipped; angle = angle % 180; the
\* edge counts when abs(angle - target) <= tolerance_degrees for a target
EdgeIsOrthogonal(edge, tolerance_degrees) ==
    /\ edge # <<>>
    /\ LET angle == edge[1] % 180
       IN  \E k \in 1..Len(target_angles) :
              Abs(angle - target_angles[k]) <= tolerance_degrees

\* count_orthogonal_edges(geom, tolerance_degrees): (total_edges,
\* orthogonal_count, orthogonal_pct), the percentage as a whole number
count_orthogonal_edges(geom, tolerance_degrees) ==
    IF ~geom.is_polygon THEN << 0, 0, 0 >>
    ELSE IF Len(geom.edges) + 1 < 3 THEN << 0, 0, 0 >>
    ELSE LET total_edges == Len(geom.edges)
             orthogonal_count ==
                 Cardinality({i \in 1..total_edges :
                                 EdgeIsOrthogonal(geom.edges[i], tolerance_degrees)})
         IN  << total_edges, orthogonal_count,
                IF total_edges > 0 THEN (orthogonal_count * 100) \div total_edges ELSE 0 >>

\* the default tolerance_degrees is 2.0
Tolerances == { 0, 2, 5 }

InitEdges ==
    /\ pc = "call"
    /\ PipelineIdle
    /\ \E is_polygon \in BOOLEAN, tolerance \in Tolerances :
       \E edges \in BoundedSeq(Edges, MaxEdges) :
          /\ ~is_polygon => edges = <<>>
          /\ call = [f |-> "count_orthogonal_edges",
                     geom |-> [is_polygon |-> is_polygon, edges |-> edges],
                     tolerance_degrees |-> tolerance]
    /\ ret = <<>>

\* count_orthogonal_edges(geom, tolerance_degrees) called on its own
CallCountOrthogonalEdges ==
    /\ pc = "call"
    /\ call.f = "count_orthogonal_edges"
    /\ ret' = count_orthogonal_edges(call.geom, call.tolerance_degrees)
    /\ pc' = "returned"
    /\ UNCHANGED << call, pipeline >>

NextEdges == CallCountOrthogonalEdges

SpecEdges == InitEdges /\ [][NextEdges]_vars

\* ------------------------------------------------------------ properties
Called(f) == f \in Range(trace)

\* transform_to_preevent_schema has returned its records
Transformed == Called("transform_to_preevent_schema") /\ error # "TransformFailed"

\* the join rows of building id: pairs (structure row, parcel row) of the
\* filtered frames with that structure_id and equal parcel_id
Candidates(id) ==
    { c \in (1..Len(structures_filtered)) \X (1..Len(properties_filtered)) :
        /\ structures_filtered[c[1]].structure_id = id
        /\ structures_filtered[c[1]].parcel_id = properties_filtered[c[2]].parcel_id }

CandArea(c) ==
    IntersectionArea(structures_filtered[c[1]].geometry, properties_filtered[c[2]].geometry)

IsCandidate(row, c) ==
    /\ row.structure_id = structures_filtered[c[1]].structure_id
    /\ row.parcel_id = structures_filtered[c[1]].parcel_id
    /\ row.geometry_property = properties_filtered[c[2]].geometry

FilteredParcelIds ==
    {properties_filtered[j].parcel_id : j \in 1..Len(properties_filtered)}

\* C1: with MFD deduplication enabled, the frame join_structure_property
\* returns holds each structure_id at most once, every row of it is one of the
\* join rows, and its overlap area is at least that of every join row of the
\* same structure_id.
C1_DedupKeepsLargestOverlap ==
    (Called("join_structure_property") /\ ENABLE_MFD_DEDUPLICATION) =>
        /\ \A i, j \in 1..Len(joined) :
               i # j => joined[i].structure_id # joined[j].structure_id
        /\ \A k \in 1..Len(joined) :
               /\ \E c \in Candidates(joined[k].structure_id) : IsCandidate(joined[k], c)
               /\ \A c \in Candidates(joined[k].structure_id) :
                      CandArea(c) <= overlap_area(joined[k])

\* C1 witness: deduplication discarded a join row of strictly smaller overlap
C1_Witness ==
    /\ Called("join_structure_property") /\ ENABLE_MFD_DEDUPLICATION
    /\ \E k \in 1..Len(joined) : \E c \in Candidates(joined[k].structure_id) :
           CandArea(c) < overlap_area(joined[k])

\* every row of structure_id id in the filtered structures has a parcel_id
\* that no filtered parcel carries
Unmatched(id) ==
    \A i \in 1..Len(structures_filtered) :
        structures_filtered[i].structure_id = id
            => structures_filtered[i].parcel_id \notin FilteredParcelIds

\* C2: a building whose parcel_id matches no filtered parcel is in no row
\* returned by join_structure_property (every returned row carries a parcel_id
\* of a filtered parcel), in no record of transform_to_preevent_schema and in
\* no written record, whatever the deduplication and regularization flags.
C2_UnmatchedBuildingAbsent ==
    /\ \A k \in 1..Len(joined) :
           /\ joined[k].parcel_id \in FilteredParcelIds
           /\ ~Unmatched(joined[k].structure_id)
    /\ \A k \in 1..Len(result_gdf) : ~Unmatched(result_gdf[k].BUILDINGS_IDS)
    /\ \A k \in 1..Len(output.pre_event_structures) :
           ~Unmatched(output.pre_event_structures[k].BUILDINGS_IDS)

\* C2 witness: a run that wrote records although some building had no match
C2_Witness ==
    /\ output.written /\ Len(output.pre_event_structures) > 0
    /\ \E i \in 1..Len(structures_filtered) :
           Unmatched(structures_filtered[i].structure_id)

\* building id has exactly two join rows, of different overlap area
TwoCandidates(id) ==
    /\ Cardinality(Candidates(id)) = 2
    /\ \E c, d \in Candidates(id) : CandArea(c) < CandArea(d)

BestCandidate(id) ==
    CHOOSE d \in Candidates(id) : \A c \in Candidates(id) : CandArea(c) <= CandArea(d)

\* C3: when a building has two join rows, one of strictly larger overlap, then
\* with deduplication enabled the records of the transformation hold exactly
\* one record of that building, and its PARCELWKT is the WKT of the parcel of
\* larger overlap, whichever of the two parcels came first in the input.
C3_LargerOverlapParcelInOutput ==
    (ENABLE_MFD_DEDUPLICATION /\ Transformed) =>
        \A id \in {structures_filtered[i].structure_id : i \in 1..Len(structures_filtered)} :
            TwoCandidates(id) =>
                /\ Cardinality({k \in 1..Len(result_gdf) :
                                   result_gdf[k].BUILDINGS_IDS = id}) = 1
                /\ \A k \in 1..Len(result_gdf) :
                       result_gdf[k].BUILDINGS_IDS = id =>
                           result_gdf[k].PARCELWKT =
                               Wkt(properties_filtered[BestCandidate(id)[2]].geometry)

\* C3 witness: records were produced for a building whose parcel of larger
\* overlap came second in the input
C3_Witness ==
    /\ ENABLE_MFD_DEDUPLICATION /\ Transformed
    /\ \E i \in 1..Len(structures_filtered) :
           LET id == structures_filtered[i].structure_id IN
           /\ TwoCandidates(id)
           /\ \E c \in Candidates(id) :
                  c # BestCandidate(id) /\ c[2] < BestCandidate(id)[2]

\* C4: after regularize_footprints returned, every association record has a
\* building geometry (the regularized one, or the original one when the
\* external routine returned nothing for its structure_id), and the run does
\* not fail in the transformation because of such a record.
C4_AbsentKeepsOriginalGeometry ==
    (Called("regularize_footprints") /\ error # "RegularizationFailed") =>
        /\ \A i \in 1..Len(merged_data) : merged_data[i].geometry_structure # NaN
        /\ error # "TransformFailed"

\* C5: when the regularization library is unavailable, regularize_footprints
\* returns the association records unchanged whatever the external routine
\* would have returned, main() leaves the join result as it is, no run ends in
\* a regularization failure, and a run with a non-empty join result goes on to
\* the transformation.
C5_UnavailableIsPassthrough ==
    ~REGULARIZATION_AVAILABLE =>
        /\ Called("join_structure_property") => merged_data = joined
        /\ error # "RegularizationFailed"
        /\ (pc = "done" /\ Called("join_structure_property") /\ Len(joined) > 0)
               => Called("transform_to_preevent_schema")
        /\ Len(joined) > 0 =>
               \A kept \in SUBSET (1..Len(joined)) :
                   regularize_footprints(joined, REGULARIZATION_AVAILABLE, kept) = joined

\* C5 witness: regularization enabled in config, library unavailable, and the
\* run wrote its output
C5_Witness ==
    /\ ENABLE_REGULARIZATION /\ ~REGULARIZATION_AVAILABLE
    /\ output.written /\ exit_code = <<0>> /\ Len(result_gdf) > 0

\* C6: with regularization disabled in config, the transformation yields one
\* record per row of the join result, whose geometry is that row's building
\* geometry and whose ROOFTOPGEO is its WKT.
C6_DisabledKeepsJoinGeometry ==
    (~ENABLE_REGULARIZATION /\ Transformed) =>
        /\ Len(result_gdf) = Len(joined)
        /\ \A k \in 1..Len(result_gdf) :
               /\ result_gdf[k].geometry = joined[k].geometry_structure
               /\ result_gdf[k].ROOFTOPGEO = Wkt(joined[k].geometry_structure)

\* C6 witness: regularization disabled although the library is available, and
\* records were produced
C6_Witness ==
    /\ ~ENABLE_REGULARIZATION /\ REGULARIZATION_AVAILABLE
    /\ Transformed /\ Len(result_gdf) > 0

NoRegionIntersects ==
    \A i \in 1..Len(STATE_BOUNDS) : ~AoiIntersects(aoi_geometry, STATE_BOUNDS[i].bounds)

\* C7: for an AOI that intersects no region extent the run never gets past
\* region resolution: it ends with exit code 1 on the no-region condition, no
\* loader and no save_output is invoked, nothing is loaded and nothing written.
C7_NoRegionIsFatal ==
    NoRegionIntersects =>
        /\ pc \in {"determine_states", "done"}
        /\ pc = "done" => (exit_code = <<1>> /\ error = "NoRegionMatch")
        /\ ~Called("load_arturo_data") /\ ~Called("load_property_data")
        /\ ~Called("save_output")
        /\ structures = <<>> /\ properties = <<>> /\ output = NoOutput

\* C7 witness: a run for such an AOI has ended
C7_Witness == NoRegionIntersects /\ pc = "done"

StateIndex(code) == CHOOSE i \in 1..Len(STATE_BOUNDS) : STATE_BOUNDS[i].state = code

\* C8: the list determine_states returned holds exactly the codes of
\* STATE_BOUNDS whose extent intersects the AOI, in strictly increasing
\* declaration order (so each at most once), and a second call with the same
\* AOI returns the same list.
C8_StatesExactOrdered ==
    Called("determine_states") =>
        /\ Range(states) =
               { STATE_BOUNDS[i].state :
                   i \in { n \in 1..Len(STATE_BOUNDS) :
                             AoiIntersects(aoi_geometry, STATE_BOUNDS[n].bounds) } }
        /\ \A i, j \in 1..Len(states) :
               i < j => StateIndex(states[i]) < StateIndex(states[j])
        /\ determine_states(aoi_geometry) = states

\* C8 witness: an AOI inside two extents
C8_Witness == Called("determine_states") /\ states = <<"NSW", "ACT">>

\* C9: once join_structure_property has returned an empty frame the run is
\* over with exit code 1 on the no-associations condition, and neither
\* regularize_footprints, transform_to_preevent_schema nor save_output is
\* ever invoked.
C9_EmptyJoinHalts ==
    (Called("join_structure_property") /\ Len(joined) = 0) =>
        /\ pc = "done" /\ exit_code = <<1>> /\ error = "NoAssociations"
        /\ ~Called("regularize_footprints")
        /\ ~Called("transform_to_preevent_schema")
        /\ ~Called("save_output")
        /\ output = NoOutput

\* C9 witness: buildings were there, none matched a parcel
C9_Witness ==
    /\ Called("join_structure_property") /\ Len(joined) = 0
    /\ Len(structures_filtered) > 0 /\ Len(properties_filtered) > 0

\* load_property_data has returned a frame without rows
NoParcelRows ==
    Called("load_property_data") /\ pc # "load_property_data" /\ properties = <<>>

\* C10: when load_property_data returned no parcel rows, the run goes through
\* the spatial filter and the join and ends with exit code 1 on the
\* no-associations condition, with an empty join result; it ends in no other
\* way.
C10_NoParcelsReachesNoAssociations ==
    NoParcelRows =>
        /\ pc \in {"spatial_filter", "join_structure_property", "done"}
        /\ pc = "done" =>
               /\ Called("spatial_filter") /\ Called("join_structure_property")
               /\ error = "NoAssociations" /\ exit_code = <<1>>
               /\ Len(joined) = 0

\* C10 witness: structures were loaded and kept by the filter, no parcel rows,
\* and the run has ended
C10_Witness ==
    NoParcelRows /\ pc = "done" /\ Len(structures_filtered) > 0

\* the sequence s is t, or t with one more element at its end
SameOrOneMore(s, t) ==
    s = t \/ (Len(s) = Len(t) + 1 /\ SubSeq(s, 1, Len(t)) = t)

\* C11: load_arturo_data fails exactly when no region yielded a structures
\* collection.  No iteration of its loop over the regions ends the run or the
\* loop, whether the region's structures were read or not: it goes on to the
\* next region, keeping what was read so far.  When the loop is over the
\* function raises (and the run ends with exit code 1) if and only if the list
\* of collections read is empty, and otherwise returns their concatenation.
C11_RaisesIffNoRegionYielded ==
    [][ pc = "load_arturo_data" =>
          /\ region <= Len(states) =>
                /\ pc' = "load_arturo_data" /\ region' = region + 1
                /\ error' = error /\ exit_code' = exit_code
                /\ SameOrOneMore(all_structures', all_structures)
          /\ region > Len(states) =>
                /\ (pc' = "done") <=> (all_structures = <<>>)
                /\ (pc' = "done") =>
                       (error' = "NoStructureData" /\ exit_code' = <<1>>)
                /\ (pc' # "done") =>
                       /\ pc' = "load_property_data" /\ exit_code' = <<>>
                       /\ structures' = Concat(all_structures) ]_vars

\* C11 witness: the loop over two regions is over, one of them yielded no
\* structures collection, the other yielded rows
C11_Witness ==
    /\ pc = "load_arturo_data" /\ Len(states) = 2 /\ region = 3
    /\ Len(all_structures) = 1 /\ Len(all_structures[1]) > 0

\* C12: load_property_data never fails.  No iteration of its loop ends the run
\* or the loop, whether the region's parcels were read or not; when the loop is
\* over the function returns to main(), which goes on to the spatial filter:
\* it returns the concatenation of the collections read, and when none was
\* read an empty collection that has the parcel_id and geometry columns.
C12_PropertyLoadNeverFails ==
    [][ pc = "load_property_data" =>
          /\ error' = error /\ exit_code' = exit_code
          /\ region <= Len(states) =>
                /\ pc' = "load_property_data" /\ region' = region + 1
                /\ SameOrOneMore(all_properties', all_properties)
          /\ region > Len(states) =>
                /\ pc' = "spatial_filter"
                /\ properties' = Concat(all_properties)
                /\ all_properties = <<>> =>
                       /\ properties' = <<>>
                       /\ {"parcel_id", "geometry"} \subseteq property_columns' ]_vars

\* C12 witness: for an AOI in two regions load_property_data has returned a
\* collection without rows, with both columns, and the run went on to the join
C12_Witness ==
    /\ NoParcelRows /\ Called("join_structure_property")
    /\ {"parcel_id", "geometry"} \subseteq property_columns
    /\ Len(states) = 2

\* out holds exactly the features of inp whose geometry intersects the AOI, in
\* the order of inp: a strictly increasing map of the positions of out onto
\* the positions of the intersecting features of inp carries equal features
IntersectingSubsequence(out, inp, aoi_geom) ==
    LET hits == {i \in 1..Len(inp) : AoiIntersects(aoi_geom, inp[i].geometry)}
    IN  /\ Len(out) <= Len(inp)
        /\ Len(out) = Cardinality(hits)
        /\ \E f \in [1..Len(out) -> hits] :
               /\ \A a, b \in 1..Len(out) : a < b => f[a] < f[b]
               /\ \A k \in 1..Len(out) : out[k] = inp[f[k]]

\* C13: each collection main() passed through spatial_filter (structures,
\* parcels, solar panels, water heaters) came back as exactly its features
\* that intersect the AOI polygon, in input order: a subsequence of the input,
\* no longer than it, with nothing added and nothing reordered.
C13_FilterIsIntersectingSubsequence ==
    Called("spatial_filter") =>
        /\ IntersectingSubsequence(structures_filtered, structures, aoi_geometry)
        /\ IntersectingSubsequence(properties_filtered, properties, aoi_geometry)
        /\ IntersectingSubsequence(solar_panels_filtered, solar_panels, aoi_geometry)
        /\ IntersectingSubsequence(water_heaters_filtered, water_heaters, aoi_geometry)

\* C13 witness: the filter kept one structure and removed another, which lies
\* inside the AOI's bounding box but outside the AOI
C13_Witness ==
    /\ Called("spatial_filter")
    /\ Len(structures_filtered) > 0
    /\ Len(structures_filtered) < Len(structures)

\* the 75 columns of the pre-event schema
PRE_EVENT_COLUMNS ==
    { "BUILDINGS_IDS", "PEID", "PARCELWKT",
      "B.CAPTURE_PROJECT", "METADATAVERSION", "B.LAYERNAME", "B.IMAGEID",
      "B.CHILD_AOI", "B.ORTHOVSNADIR", "B.CAMERATECHNOLOGY", "B.IMGDATE", "B.IMGGSD",
      "POOLAREA", "TRAMPOLINE", "TRAMPSCR", "DECK", "DECKSCR", "POOL", "POOLSCR",
      "ENCLOSURE", "ENCLOSUSCR", "DIVINGBOAR", "DIVINGSCR", "WATERSLIDE",
      "WATSLIDSCR", "PLAYGROUND", "PLAYGSCR", "SPORTCOURT", "SPORTSCR", "PRIMARYSTR",
      "ROOFTOPGEO", "GROUNDELEV", "DETECTSCR", "ROOFSHAPE", "ROOFSHASCR",
      "ROOFMATERI", "ROOFMATSCR", "ROOFCONDIT", "ROOFSOLAR", "ROOFTREE",
      "DST5", "DSB5", "DST30", "DSB30", "DST100", "DSB100", "DST200", "DSB200",
      "CATASTROPHESCORE", "ROOFCONDIT_MISSINGMATERIALPERCEN", "ROOFCONDIT_TARPPERCEN",
      "ROOFCONDIT_DEBRISPERCENT", "ROOFCONDIT_DISCOLORDETECT",
      "ROOFCONDIT_DISCOLORPERCEN", "ROOFCONDIT_DISCOLORSCORE", "DAMAGE_LEVEL",
      "HISTOSCORE",
      "CAPTURE_PROJECT", "LAYERNAME", "IMAGEID", "CHILD_AOI", "ORTHOVSNADIR",
      "CAMERATECHNOLOGY", "IMGDATE", "IMGGSD",
      "DSKWT5", "DSKWT30", "DSKWT100", "DSKWT200",
      "task_structures_info", "structures_count", "property_id",
      "ROOFCONDIT_STRUCTURALDAMAGEPERCEN", "ROOFWATERHEATER", "geometry" }

\* C14: the records transform_to_preevent_schema returned are as many as the
\* association records it received, record k is built from association record
\* k (its building id, geometry and parcel), and every record has exactly the
\* 75 columns of the schema, whether or not the rows carry an is_primary
\* attribute.
C14_OneRecordPerRowFixedColumns ==
    Transformed =>
        /\ Len(result_gdf) = Len(merged_data)
        /\ \A k \in 1..Len(result_gdf) :
               /\ result_gdf[k].BUILDINGS_IDS = merged_data[k].structure_id
               /\ result_gdf[k].geometry = merged_data[k].geometry_structure
               /\ result_gdf[k].PARCELWKT = Wkt(merged_data[k].geometry_property)
               /\ DOMAIN result_gdf[k] = PRE_EVENT_COLUMNS
               /\ Cardinality(DOMAIN result_gdf[k]) = 75

\* C14 witness: two records were produced, for two different buildings, from
\* rows that carry no is_primary attribute
C14_Witness ==
    /\ Transformed /\ Len(result_gdf) = 2
    /\ result_gdf[1].BUILDINGS_IDS # result_gdf[2].BUILDINGS_IDS
    /\ "is_primary" \notin DOMAIN merged_data[1]

\* the building of association record k intersects a panel of the collection
Hits(k, collection) ==
    /\ merged_data[k].geometry_structure # NaN
    /\ \E i \in 1..Len(collection) :
           RectIntersects(merged_data[k].geometry_structure, collection[i].geometry)

\* C20: for the association records and filtered auxiliary collections of the
\* run, whatever union and intersection test fails inside the transformation:
\* a record's solar flag is set exactly when the solar collection is not
\* empty, its union was built, the test of the building did not raise, and
\* the building intersects a solar panel; otherwise it is unset; likewise for
\* the water-heater flag.  The records the run produced are of this kind, and
\* the transformation fails only on a record without a building or parcel
\* geometry, never on a failing union or test.
C20_AuxFlagsFollowIntersection ==
    /\ (Called("join_structure_property") /\ ~TransformRaises(merged_data)) =>
           \A fail \in TransformFailures(merged_data, solar_panels_filtered,
                                         water_heaters_filtered) :
               LET out == transform_to_preevent_schema(merged_data,
                              solar_panels_filtered, water_heaters_filtered, fail)
               IN  \A k \in 1..Len(merged_data) :
                       /\ out[k].ROOFSOLAR =
                              IF /\ Len(solar_panels_filtered) > 0 /\ ~fail.solar_union
                                 /\ merged_data[k].geometry_structure \notin fail.solar_geoms
                                 /\ Hits(k, solar_panels_filtered)
                                 THEN "SOLAR PANEL" ELSE "NO SOLAR PANEL"
                       /\ out[k].ROOFWATERHEATER =
                              IF /\ Len(water_heaters_filtered) > 0 /\ ~fail.water_union
                                 /\ merged_data[k].geometry_structure \notin fail.water_geoms
                                 /\ Hits(k, water_heaters_filtered)
                                 THEN "WATER HEATER" ELSE "NO WATER HEATER"
    /\ Transformed =>
           \A k \in 1..Len(result_gdf) :
               /\ result_gdf[k].ROOFSOLAR \in {"SOLAR PANEL", "NO SOLAR PANEL"}
               /\ result_gdf[k].ROOFSOLAR = "SOLAR PANEL" => Hits(k, solar_panels_filtered)
               /\ result_gdf[k].ROOFWATERHEATER \in {"WATER HEATER", "NO WATER HEATER"}
               /\ result_gdf[k].ROOFWATERHEATER = "WATER HEATER"
                      => Hits(k, water_heaters_filtered)
    /\ error = "TransformFailed" => TransformRaises(merged_data)

\* C20 witness: two records; the first building is flagged for the solar
\* panel on its roof and not for the water heater on the other building's
\* roof, the second is not flagged for the water heater on its own roof (the
\* union or its test failed)
C20_Witness ==
    /\ Transformed /\ Len(result_gdf) = 2
    /\ result_gdf[1].ROOFSOLAR = "SOLAR PANEL"
    /\ result_gdf[1].ROOFWATERHEATER = "NO WATER HEATER"
    /\ ~Hits(1, water_heaters_filtered)
    /\ Len(water_heaters_filtered) > 0
    /\ result_gdf[2].ROOFWATERHEATER = "NO WATER HEATER"
    /\ Hits(2, water_heaters_filtered)

\* the conditions that end a run before save_output is reached
FatalBeforeSave ==
    { "NoRegionMatch", "NoStructureData", "NoAssociations", "JoinFailed",
      "RegularizationFailed", "TransformFailed" }

\* C15 as stated: exit code 0 only after save_output completed, and a run that
\* ended on any fatal condition or exception has a non-zero exit code and has
\* not invoked save_output.
C15_FatalNeverInvokesSave ==
    /\ exit_code = <<0>> => (Called("save_output") /\ output.written)
    /\ (pc = "done" /\ error # "") =>
           (exit_code = <<1>> /\ ~Called("save_output"))

\* C15 amended: exit code 0 only after save_output completed; a run that ended
\* on a condition or exception raised before save_output (no region, no
\* structures, no associations, a failing join, regularization or
\* transformation) has exit code 1, has not invoked save_output and has
\* written nothing; a run in which save_output itself raised has exit code 1
\* too, after save_output was invoked and without a completed output; and a
\* finished run has exit code 0 exactly when no condition ended it.
C15_ExitCodes ==
    /\ exit_code = <<0>> =>
           (Called("save_output") /\ output.written /\ error = "")
    /\ (pc = "done" /\ error \in FatalBeforeSave) =>
           (exit_code = <<1>> /\ ~Called("save_output") /\ output = NoOutput)
    /\ (pc = "done" /\ error = "SaveFailed") =>
           (exit_code = <<1>> /\ Called("save_output") /\ ~output.written)
    /\ pc = "done" =>
           /\ error \in FatalBeforeSave \cup {"SaveFailed", ""}
           /\ (exit_code = <<0>>) <=> (error = "")
           /\ exit_code \in {<<0>>, <<1>>}
    /\ pc # "done" => exit_code = <<>>

\* C15 witness: save_output raised after writing the structures layer, and
\* main() returned 1
C15_Witness ==
    /\ pc = "done" /\ error = "SaveFailed" /\ exit_code = <<1>>
    /\ Called("save_output")
    /\ Len(output.pre_event_structures) > 0

\* all join rows: pairs (structure row, parcel row) of equal parcel_id
AllCandidates ==
    { c \in (1..Len(structures_filtered)) \X (1..Len(properties_filtered)) :
        structures_filtered[c[1]].parcel_id = properties_filtered[c[2]].parcel_id }

\* c comes before d in the join: by structure row, then by parcel row
Before(c, d) == c[1] < d[1] \/ (c[1] = d[1] /\ c[2] < d[2])

Rank(c) == Cardinality({d \in AllCandidates : Before(d, c)}) + 1

\* C16: with MFD deduplication disabled the frame join_structure_property
\* returns holds every join row (structure row with a parcel row of equal
\* parcel_id), each once, in join order, so a structure_id has as many rows
\* as it has matching pairs; and the records of the transformation hold as
\* many records of each structure_id.
C16_NoDedupKeepsEveryMatch ==
    (~ENABLE_MFD_DEDUPLICATION /\ Called("join_structure_property")) =>
        /\ Len(joined) = Cardinality(AllCandidates)
        /\ \A c \in AllCandidates :
               /\ IsCandidate(joined[Rank(c)], c)
               /\ joined[Rank(c)].geometry_structure = structures_filtered[c[1]].geometry
        /\ Transformed =>
               \A id \in {structures_filtered[i].structure_id :
                              i \in 1..Len(structures_filtered)} :
                   Cardinality({k \in 1..Len(result_gdf) :
                                   result_gdf[k].BUILDINGS_IDS = id})
                       = Cardinality(Candidates(id))

\* C16 witness: deduplication disabled, a building matched two parcel rows and
\* has two output records
C16_Witness ==
    /\ ~ENABLE_MFD_DEDUPLICATION /\ Transformed
    /\ \E i \in 1..Len(structures_filtered) :
           LET id == structures_filtered[i].structure_id IN
           /\ Cardinality(Candidates(id)) = 2
           /\ Cardinality({k \in 1..Len(result_gdf) :
                              result_gdf[k].BUILDINGS_IDS = id}) = 2

\* the first, in join order, of the join rows of building id with the largest
\* overlap area
FirstBest(id) ==
    CHOOSE c \in Candidates(id) :
        /\ \A d \in Candidates(id) : CandArea(d) <= CandArea(c)
        /\ \A d \in Candidates(id) : CandArea(d) = CandArea(c) => ~Before(d, c)

\* C17: with deduplication enabled, the row kept for a building is, among its
\* join rows of largest overlap area, the one that comes first in the join
\* result.
C17_TieKeepsFirstOccurrence ==
    (ENABLE_MFD_DEDUPLICATION /\ Called("join_structure_property")) =>
        \A k \in 1..Len(joined) :
            /\ IsCandidate(joined[k], FirstBest(joined[k].structure_id))
            /\ joined[k].geometry_structure =
                   structures_filtered[FirstBest(joined[k].structure_id)[1]].geometry

\* C18: with deduplication enabled, the structure_ids of the frame
\* join_structure_property returns are exactly the structure_ids that have a
\* join row: deduplication removes no building, and two buildings matched to
\* the same parcel row are both there.
C18_DedupOnlyWithinBuilding ==
    (ENABLE_MFD_DEDUPLICATION /\ Called("join_structure_property")) =>
        /\ {joined[k].structure_id : k \in 1..Len(joined)}
               = {structures_filtered[c[1]].structure_id : c \in AllCandidates}
        /\ \A c, d \in AllCandidates :
               (c[2] = d[2] /\ structures_filtered[c[1]].structure_id
                                  # structures_filtered[d[1]].structure_id)
                   => \E i, j \in 1..Len(joined) :
                         /\ joined[i].structure_id = structures_filtered[c[1]].structure_id
                         /\ joined[j].structure_id = structures_filtered[d[1]].structure_id

\* C18 witness: deduplication kept two different buildings with the same
\* parcel_id and the same parcel geometry
C18_Witness ==
    /\ ENABLE_MFD_DEDUPLICATION /\ Called("join_structure_property")
    /\ Len(properties_filtered) = 1
    /\ \E i, j \in 1..Len(joined) :
           /\ joined[i].structure_id # joined[j].structure_id
           /\ joined[i].parcel_id = joined[j].parcel_id
           /\ joined[i].geometry_property = joined[j].geometry_property

\* C19: in one iteration of load_arturo_data's loop, each auxiliary list gets
\* at most the one collection read for the region, and none when its read
\* failed, while the loop goes on to the next region without ending the run;
\* and when the region yielded no structures collection (file missing or read
\* failed) neither auxiliary list gets anything.  When the loop is over and
\* structures were read, the auxiliary collections returned are the
\* concatenations of what was read (empty when nothing was).
C19_AuxFailureTolerated ==
    [][ pc = "load_arturo_data" =>
          /\ region <= Len(states) =>
                /\ pc' = "load_arturo_data" /\ region' = region + 1
                /\ error' = error /\ exit_code' = exit_code
                /\ SameOrOneMore(all_solar_panels', all_solar_panels)
                /\ SameOrOneMore(all_water_heaters', all_water_heaters)
                /\ all_structures' = all_structures =>
                       /\ all_solar_panels' = all_solar_panels
                       /\ all_water_heaters' = all_water_heaters
          /\ (region > Len(states) /\ all_structures # <<>>) =>
                /\ pc' = "load_property_data"
                /\ solar_panels' = Concat(all_solar_panels)
                /\ water_heaters' = Concat(all_water_heaters) ]_vars

\* C19 witness: for the first region the structures were read, the solar
\* panel layer failed, the water heater layer was read with a row, and the
\* loop is going on
C19_Witness ==
    /\ pc = "load_arturo_data" /\ region = 2
    /\ Len(all_structures) = 1
    /\ all_solar_panels = <<>>
    /\ Len(all_water_heaters) = 1 /\ Len(all_water_heaters[1]) > 0

\* the value a row carries for a column is missing: no such column, None or NaN
Missing(row, name) == ~notna(Get(row, name, None))

\* C21: every source value of the three roof attributes, unmapped, null and
\* absent ones included, is remapped to a value of the lookup tables:
\* ROOFSHAPE is gable, hip, flat or Unknown, ROOFMATERI is metal, tile,
\* membrane or Unknown, ROOFCONDIT is 2.0, 3.0, 4.0 or 5.0, and a source value
\* that is missing or not a key of the table gives Unknown (3.0 for condition).
C21_RoofValuesFromTables ==
    Transformed =>
        \A i \in 1..Len(result_gdf) :
            LET row == merged_data[i]
                rec == result_gdf[i]
                shape == Get(row, "roof_shape_majority", None)
                material == Get(row, "roof_material_majority", None)
                condition == Get(row, "roof_condition_general", None)
            IN  /\ rec.ROOFSHAPE \in {"gable", "hip", "flat", "Unknown"}
                /\ rec.ROOFMATERI \in {"metal", "tile", "membrane", "Unknown"}
                /\ rec.ROOFCONDIT \in {2, 3, 4, 5}
                /\ shape \notin {"gable", "hip", "flat"} => rec.ROOFSHAPE = "Unknown"
                /\ material \notin {"metal", "concrete_tile", "clay_tile", "tile",
                                    "solid_concrete"} => rec.ROOFMATERI = "Unknown"
                /\ condition \notin {"good", "fair", "poor", "excellent"}
                      => rec.ROOFCONDIT = 3

\* a record written for a row whose shape is None, whose
\* material column is absent and whose condition is not a key of the table
C21_Witness ==
    /\ Transformed
    /\ Len(result_gdf) = 1
    /\ "roof_shape_majority" \in DOMAIN merged_data[1]
    /\ merged_data[1].roof_shape_majority = None
    /\ "roof_material_majority" \notin DOMAIN merged_data[1]
    /\ "roof_condition_general" \in DOMAIN merged_data[1]
    /\ merged_data[1].roof_condition_general = "severe"
    /\ result_gdf[1].ROOFSHAPE = "Unknown"
    /\ result_gdf[1].ROOFMATERI = "Unknown"
    /\ result_gdf[1].ROOFCONDIT = 3

\* the parcel flag columns and the output fields made from them
ParcelFlagFields ==
    [has_pool |-> "POOL", has_wooden_deck |-> "DECK",
     has_trampoline |-> "TRAMPOLINE", has_enclosure |-> "ENCLOSURE"]

\* C22: each of POOL, DECK, TRAMPOLINE and ENCLOSURE is 'FALSE' whenever the
\* row carries no value for its parcel flag (column absent, or value null or
\* missing), and is 'TRUE' only when the parcel flag is true.
C22_ParcelFlagsFalseWhenMissing ==
    Transformed =>
        \A i \in 1..Len(result_gdf) : \A c \in DOMAIN ParcelFlagFields :
            LET field == result_gdf[i][ParcelFlagFields[c]]
            IN  /\ Missing(merged_data[i], c) => field = "FALSE"
                /\ field = "TRUE" => Get(merged_data[i], c, None) = PyTrue

\* C23: SPORTCOURT is 'TRUE' exactly when at least one of the tennis court,
\* basketball court and sport pitch flags of the row is true, and 'FALSE'
\* when all three are false, null or absent.
C23_SportCourtIffSomeFlagTrue ==
    Transformed =>
        \A i \in 1..Len(result_gdf) :
            result_gdf[i].SPORTCOURT =
                TrueFalse(\E c \in SportFlagColumns :
                             Get(merged_data[i], c, None) = PyTrue)

\* the stages of main() in program order
StageOrder ==
    << "determine_states", "load_arturo_data", "load_property_data",
       "spatial_filter", "join_structure_property", "regularize_footprints",
       "transform_to_preevent_schema", "save_output" >>

StageIndex(f) == CHOOSE i \in 1..Len(StageOrder) : StageOrder[i] = f

\* C24: within one run of main() every stage runs at most once and the stages
\* run strictly in the order region resolution, structure/parcel loading,
\* spatial filtering, join, regularization, schema transformation, output
\* writing; no stage runs after a later one has started, and main() is
\* never positioned at a stage earlier than one it has invoked.
C24_StagesOnceInOrder ==
    /\ \A i \in 1..Len(trace) : trace[i] \in Range(StageOrder)
    /\ \A i, j \in 1..Len(trace) :
          i < j => StageIndex(trace[i]) < StageIndex(trace[j])
    /\ pc # "done" =>
          \A i \in 1..Len(trace) : StageIndex(trace[i]) <= StageIndex(pc)

\* a run that went through all eight stages and returned 0
C24_Witness ==
    /\ exit_code = <<0>>
    /\ trace = StageOrder

\* C25: regularize_footprints changes only the building geometry of the
\* association records.  Whatever rows the regularization returns, the frame
\* it gives back has the rows of its input in number and order, every row
\* with its columns and its values but for geometry_structure (structure_id,
\* parcel geometry and all other attributes), and each row whose
\* structure_id is among the returned rows has the regularized geometry
\* returned for a row of that structure_id; and the frame main() holds after
\* the call is of this kind.
C25_RegularizationChangesOnlyGeometry ==
    /\ (Called("join_structure_property") /\ Len(joined) > 0) =>
          \A kept \in SUBSET (1..Len(joined)) :
              LET out == regularize_footprints(joined, TRUE, kept)
              IN  /\ Len(out) = Len(joined)
                  /\ \A k \in 1..Len(joined) :
                        /\ DOMAIN out[k] = DOMAIN joined[k]
                        /\ \A c \in (DOMAIN joined[k]) \ {"geometry_structure"} :
                               out[k][c] = joined[k][c]
                        /\ (\E j \in kept : joined[j].structure_id = joined[k].structure_id)
                              => \E j \in kept :
                                    /\ joined[j].structure_id = joined[k].structure_id
                                    /\ out[k].geometry_structure =
                                          regularize_geodataframe(joined[j].geometry_structure)
    /\ (Called("regularize_footprints") /\ error # "RegularizationFailed") =>
          /\ Len(merged_data) = Len(joined)
          /\ \A k \in 1..Len(joined) :
                /\ DOMAIN merged_data[k] = DOMAIN joined[k]
                /\ \A c \in (DOMAIN joined[k]) \ {"geometry_structure"} :
                       merged_data[k][c] = joined[k][c]

\* C25 witness: two association records of different buildings were
\* regularized; the first received its regularized footprint, the second was
\* not among the returned rows
C25_Witness ==
    /\ Called("regularize_footprints") /\ error # "RegularizationFailed"
    /\ Len(merged_data) = 2
    /\ merged_data[1].structure_id # merged_data[2].structure_id
    /\ merged_data[1].geometry_structure =
           regularize_geodataframe(joined[1].geometry_structure)
    /\ merged_data[1].geometry_structure # joined[1].geometry_structure
    /\ merged_data[2].geometry_structure = NaN

\* C26: the planar zone regularize_footprints chooses is a valid UTM zone: for
\* every centroid longitude from -180 to 180 degrees the zone number is in
\* 1..60, and the hemisphere is south exactly when the centroid latitude is
\* negative.
C26_ValidUtmZone ==
    (pc = "returned" /\ call.f = "regularize_footprints") =>
        LET centroid == Centroid({call.merged_data[i].geometry_structure :
                                     i \in 1..Len(call.merged_data)})
        IN  /\ (centroid.x >= -180000000 /\ centroid.x <= 180000000)
                  => ret.target_crs.utm_zone \in 1..60
            /\ (ret.target_crs.hemisphere = "south") <=> (centroid.y < 0)

\* C27: when --aoi-index is given with an integer outside 1..N (N the number
\* of available AOIs; 0 and negative values included), main() returns 1
\* without prompting for a selection and without loading or processing any
\* dataset.
C27_InvalidIndexReturnsOne ==
    (args_aoi_index # <<>> /\ args_aoi_index[1] \notin 1..Len(aois)
        /\ pc # "select_aoi") =>
        /\ pc = "done" /\ exit_code = <<1>> /\ error = "InvalidAoiIndex"
        /\ trace = <<>>
        /\ all_structures = <<>> /\ all_properties = <<>>
        /\ structures = <<>> /\ properties = <<>>
        /\ output = NoOutput

\* the occurrences of a collection name in the responses received: pairs
\* (layer, feature position), in layer query order
Occurrences(name) ==
    { o \in (1..Len(layers_to_query)) \X (1..MaxFeatures + 1) :
        /\ ~call.responses[o[1]].raised
        /\ o[2] <= Len(call.responses[o[1]].features)
        /\ call.responses[o[1]].features[o[2]].collection = name }

FirstOccurrence(name) ==
    CHOOSE o \in Occurrences(name) :
        \A q \in Occurrences(name) : o[1] < q[1] \/ (o[1] = q[1] /\ o[2] <= q[2])

\* C28: load_api_collections returns each non-empty collection name at most
\* once over both layers, the entry returned for a name being that of the
\* name's first occurrence in layer query order in the responses received;
\* it returns no entry with an empty name; and when the query of a layer
\* fails the result is what it would be had that layer held no collections.
C28_FirstOccurrenceKept ==
    (pc = "returned" /\ call.f = "load_api_collections"
        /\ call.available /\ call.credentials /\ call.authenticated) =>
        /\ \A i, j \in 1..Len(ret) :
              ret[i].collection_id = ret[j].collection_id => i = j
        /\ \A i \in 1..Len(ret) :
              /\ ret[i].collection_id # ""
              /\ LET o == FirstOccurrence(ret[i].collection_id)
                 IN  ret[i] = ApiEntry(call.responses[o[1]].features[o[2]],
                                       layers_to_query[o[1]])
        /\ \A k \in 1..Len(layers_to_query) :
              call.responses[k].raised =>
                  ret = load_api_collections(TRUE, TRUE, TRUE,
                            [call.responses EXCEPT
                                ![k] = [raised |-> FALSE, features |-> <<>>]])

\* the angle from direction a, taken modulo 180 degrees, to the nearest of the
\* axes 0, 45, 90 and 135 degrees (the 0 degree axis is also at 180)
AxisDistance(a) ==
    LET m == a % 180
    IN  SetMin({Abs(m - t) : t \in {0, 45, 90, 135, 180}})

\* C29: count_orthogonal_edges counts an edge exactly when its direction,
\* modulo 180 degrees, is within tolerance_degrees of one of the axes 0, 45,
\* 90 and 135 degrees (an edge at 179 degrees, 1 degree from the 0 degree
\* axis, is counted with the default tolerance 2), and the orthogonal count
\* is never above the total edge count.
C29_CountsEdgesNearAnAxis ==
    (pc = "returned" /\ call.f = "count_orthogonal_edges"
        /\ call.geom.is_polygon /\ Len(call.geom.edges) >= 2) =>
        /\ ret[1] = Len(call.geom.edges)
        /\ ret[2] = Cardinality({i \in 1..Len(call.geom.edges) :
                        /\ call.geom.edges[i] # <<>>
                        /\ AxisDistance(call.geom.edges[i][1])
                              <= call.tolerance_degrees})
        /\ ret[2] <= ret[1]

\* the filtered buildings that have a parcel row of their parcel_id
Matched ==
    { i \in 1..Len(structures_filtered) :
        \E j \in 1..Len(properties_filtered) :
            properties_filtered[j].parcel_id = structures_filtered[i].parcel_id }

\* C30: join_structure_property does not fail on a partial drop and never
\* divides by zero.  For the filtered collections of the run, empty ones
\* included, and every frame the function may return, neither the dropped
\* nor the deduplicated percentage is a division by zero, and the join does
\* not end the run with an exception; when some buildings have a parcel
\* match (whether or not others lack one) the function returns rows, for
\* exactly the matched buildings, and the run goes on.
C30_JoinNeverDividesByZero ==
    /\ \A m \in join_structure_property(structures_filtered, properties_filtered,
                                         ENABLE_MFD_DEDUPLICATION) :
          LET p == join_percentages(structures_filtered, properties_filtered,
                                    ENABLE_MFD_DEDUPLICATION, m)
          IN  ~p.dropped.raised /\ ~p.deduplicated.raised
    /\ error # "JoinFailed"
    /\ (Called("join_structure_property") /\ Matched # {}) =>
          /\ Len(joined) > 0
          /\ error # "NoAssociations"
          /\ {joined[k].structure_id : k \in 1..Len(joined)}
                = {structures_filtered[i].structure_id : i \in Matched}

\* C30 witness: of two buildings one had no parcel match; the function
\* returned the other and computed a dropped percentage of 50
C30_Witness ==
    /\ Called("join_structure_property")
    /\ Len(structures_filtered) = 2
    /\ Cardinality(Matched) = 1
    /\ Len(joined) = 1
    /\ joined[1].structure_id = structures_filtered[CHOOSE i \in Matched : TRUE].structure_id
    /\ join_percentages(structures_filtered, properties_filtered,
                        ENABLE_MFD_DEDUPLICATION, joined).dropped.pct = 50

====
